---- MODULE Spec2Model ----
(***************************************************************************)
(* Model of the mk48-plus server core: the entity catalog and the spawn /  *)
(* upgrade policy (common/src/entity/_type.rs) and the world spawn         *)
(* subsystem (server/src/world_spawn.rs).                                  *)
(*                                                                         *)
(* Lengths are integers in decimetres (catalog sizes are truncated to the  *)
(* decimetre); spawn thresholds are fixed-point integers with TScale units *)
(* to one.                                                                 *)
(***************************************************************************)
EXTENDS Integers, Sequences, FiniteSets, TLC

(***************************************************************************)
(* Entity catalog: enum EntityType and its per-variant attributes.         *)
(***************************************************************************)
RECURSIVE SqrtSearch(_, _, _)
SqrtSearch(n, lo, hi) ==
  IF lo = hi THEN lo
  ELSE LET mid == (lo + hi + 1) \div 2
       IN  IF mid * mid <= n THEN SqrtSearch(n, mid, hi)
           ELSE SqrtSearch(n, lo, mid - 1)

\* Integer square root (floor); 46340 is the largest root of a 32-bit square.
ISqrt(n) == SqrtSearch(n, 0, 46340)

\* hypot(a, b), truncated to the decimetre.
Hypot(a, b) == ISqrt(a * a + b * b)

\* One catalog entry; radius is derived as hypot(length, width) / 2.
Row(kind, sub_kind, level, npc, length, width, lifespan) ==
  [kind |-> kind, sub_kind |-> sub_kind, level |-> level, npc |-> npc,
   length |-> length, width |-> width, lifespan |-> lifespan,
   radius |-> Hypot(length, width) \div 2]

\* The variants of enum EntityType in declaration order, each with the
\* attributes of its #[entity], #[size] and #[props] lines:
\* <<name, kind, sub_kind, level, npc, length, width, lifespan>>.
CATALOG == <<
  <<"Abrams", "Boat", "Tank", 6, FALSE, 79, 36, 0>>,
  <<"Avenger", "Aircraft", "Plane", 5, FALSE, 124, 165, 0>>,
  <<"J15", "Aircraft", "Plane", 9, FALSE, 222, 150, 0>>,
  <<"E4N", "Aircraft", "Plane", 5, FALSE, 88, 102, 0>>,
  <<"TieFighter", "Aircraft", "Plane", 12, FALSE, 72, 67, 0>>,
  <<"Harbin", "Aircraft", "Heli", 5, FALSE, 142, 131, 0>>,
  <<"Ka25", "Aircraft", "Heli", 5, FALSE, 158, 158, 0>>,
  <<"Kingfisher", "Aircraft", "Plane", 5, FALSE, 100, 109, 0>>,
  <<"Seahawk", "Aircraft", "Heli", 5, FALSE, 196, 160, 0>>,
  <<"Type96", "Aircraft", "Plane", 7, FALSE, 75, 110, 0>>,
  <<"SuperEtendard", "Aircraft", "Plane", 7, FALSE, 143, 94, 0>>,
  <<"SuperFrelon", "Aircraft", "Heli", 5, FALSE, 231, 189, 0>>,
  <<"Z18", "Aircraft", "Heli", 9, FALSE, 231, 189, 0>>,
  <<"Akula", "Boat", "Submarine", 6, FALSE, 1133, 201, 0>>,
  <<"Apache", "Boat", "Helicopter", 7, FALSE, 177, 146, 0>>,
  <<"ArleighBurke", "Boat", "Destroyer", 5, FALSE, 1540, 200, 0>>,
  <<"Bismarck", "Boat", "Battleship", 7, FALSE, 2416, 360, 0>>,
  <<"Buyan", "Boat", "Corvette", 4, FALSE, 750, 111, 0>>,
  <<"B2", "Boat", "Aeroplane", 11, FALSE, 210, 524, 0>>,
  <<"Clemenceau", "Boat", "Carrier", 8, FALSE, 2650, 486, 0>>,
  <<"Kaga", "Boat", "Carrier", 10, FALSE, 2476, 325, 0>>,
  <<"Liaoning", "Boat", "Carrier", 9, FALSE, 3045, 670, 0>>,
  <<"Chinook", "Boat", "Helicopter", 2, FALSE, 300, 180, 0>>,
  <<"Catalina", "Boat", "Aeroplane", 5, FALSE, 194, 320, 0>>,
  <<"Spitfire", "Boat", "Aeroplane", 8, FALSE, 182, 224, 0>>,
  <<"J20", "Boat", "Aeroplane", 10, FALSE, 212, 130, 0>>,
  <<"F35", "Boat", "Aeroplane", 11, FALSE, 157, 110, 0>>,
  <<"Dreadnought", "Boat", "Dreadnought", 4, FALSE, 1609, 251, 0>>,
  <<"Dredger", "Boat", "Dredger", 4, FALSE, 990, 165, 0>>,
  <<"Drone", "Boat", "Drone", 1, FALSE, 11, 14, 0>>,
  <<"Espana", "Boat", "Dreadnought", 3, FALSE, 1384, 243, 0>>,
  <<"Ekranoplan", "Boat", "Ekranoplan", 6, FALSE, 738, 440, 0>>,
  <<"Essex", "Boat", "Carrier", 6, FALSE, 2658, 425, 0>>,
  <<"FairmileD", "Boat", "Mtb", 1, FALSE, 350, 63, 0>>,
  <<"Fletcher", "Boat", "Destroyer", 4, FALSE, 1148, 120, 0>>,
  <<"Freccia", "Boat", "Destroyer", 3, FALSE, 961, 93, 0>>,
  <<"Freedom", "Boat", "Lcs", 6, FALSE, 1150, 175, 0>>,
  <<"G5", "Boat", "Mtb", 1, FALSE, 188, 35, 0>>,
  <<"Golf", "Boat", "Submarine", 4, FALSE, 984, 82, 0>>,
  <<"Indiaman", "Boat", "Pirate", 3, FALSE, 528, 136, 0>>,
  <<"Iowa", "Boat", "Battleship", 10, FALSE, 2704, 327, 0>>,
  <<"Kirov", "Boat", "Cruiser", 9, FALSE, 2520, 287, 0>>,
  <<"Kolkata", "Boat", "Destroyer", 6, FALSE, 1630, 174, 0>>,
  <<"Komar", "Boat", "Mtb", 1, FALSE, 254, 62, 0>>,
  <<"Leander", "Boat", "Cruiser", 5, FALSE, 1691, 171, 0>>,
  <<"Lublin", "Boat", "Minelayer", 3, FALSE, 958, 108, 0>>,
  <<"Momi", "Boat", "Destroyer", 2, FALSE, 853, 79, 0>>,
  <<"Montana", "Boat", "Battleship", 8, FALSE, 2808, 369, 0>>,
  <<"Moskva", "Boat", "Carrier", 7, FALSE, 1890, 340, 0>>,
  <<"Oberon", "Boat", "Submarine", 3, FALSE, 900, 82, 0>>,
  <<"Ohio", "Boat", "Submarine", 7, FALSE, 1700, 130, 0>>,
  <<"Olympias", "Boat", "Ram", 1, FALSE, 369, 55, 0>>,
  <<"Osa", "Boat", "Mtb", 3, FALSE, 386, 76, 0>>,
  <<"Pt34", "Boat", "Mtb", 1, FALSE, 230, 60, 0>>,
  <<"Seawolf", "Boat", "Submarine", 8, FALSE, 1080, 176, 0>>,
  <<"Skipjack", "Boat", "Submarine", 5, FALSE, 767, 96, 0>>,
  <<"Skjold", "Boat", "Corvette", 7, FALSE, 475, 137, 0>>,
  <<"Sherman", "Boat", "Tank", 4, FALSE, 58, 28, 0>>,
  <<"StarDestroyer", "Boat", "Starship", 12, FALSE, 16000, 8780, 0>>,
  <<"Tanker", "Boat", "Tanker", 5, FALSE, 1790, 309, 0>>,
  <<"TerryFox", "Boat", "Icebreaker", 6, FALSE, 880, 177, 0>>,
  <<"Town", "Boat", "Cruiser", 6, FALSE, 1803, 207, 0>>,
  <<"Type055", "Boat", "Destroyer", 7, FALSE, 1800, 200, 0>>,
  <<"TypeViic", "Boat", "Submarine", 2, FALSE, 671, 62, 0>>,
  <<"Ticonderoga", "Boat", "Cruiser", 8, FALSE, 1730, 168, 0>>,
  <<"Titanic", "Boat", "Passenger", 7, FALSE, 2691, 282, 0>>,
  <<"Uap", "Boat", "Drone", 1, FALSE, 120, 74, 0>>,
  <<"Vindicator", "Boat", "Aeroplane", 12, FALSE, 288, 298, 0>>,
  <<"Visby", "Boat", "Corvette", 5, FALSE, 727, 104, 0>>,
  <<"Virginia", "Boat", "Submarine", 10, FALSE, 1150, 100, 0>>,
  <<"Xwing", "Boat", "Aeroplane", 9, FALSE, 134, 117, 0>>,
  <<"Yamato", "Boat", "Battleship", 9, FALSE, 2630, 400, 0>>,
  <<"Yasen", "Boat", "Submarine", 9, FALSE, 1300, 198, 0>>,
  <<"Zubr", "Boat", "Hovercraft", 2, FALSE, 570, 211, 0>>,
  <<"Lst", "Boat", "LandingShip", 4, FALSE, 333, 56, 0>>,
  <<"Zudredger", "Boat", "Hovercraft", 11, FALSE, 570, 211, 0>>,
  <<"Zumwalt", "Boat", "Destroyer", 8, FALSE, 1900, 246, 0>>,
  <<"Barrel", "Collectible", "Score", 1, FALSE, 27, 17, 60>>,
  <<"Coin", "Collectible", "Score", 5, FALSE, 30, 30, 120>>,
  <<"Crate", "Collectible", "Score", 1, FALSE, 20, 20, 60>>,
  <<"Scrap", "Collectible", "Score", 2, FALSE, 30, 30, 80>>,
  <<"Brosok", "Decoy", "Sonar", 4, FALSE, 15, 2, 15>>,
  <<"Mk70", "Decoy", "Sonar", 2, FALSE, 20, 2, 15>>,
  <<"Mk3", "Decoy", "Sonar", 5, FALSE, 26, 1, 30>>,
  <<"Moskit", "Weapon", "Missile", 9, FALSE, 97, 8, 0>>,
  <<"Jagm", "Weapon", "Missile", 15, FALSE, 18, 1, 0>>,
  <<"Acacia", "Obstacle", "Tree", 0, FALSE, 100, 100, 0>>,
  <<"AverageTree", "Obstacle", "Tree", 0, FALSE, 120, 120, 0>>,
  <<"Palm", "Obstacle", "Tree", 0, FALSE, 140, 140, 0>>,
  <<"Hq", "Obstacle", "Structure", 0, FALSE, 900, 900, 600>>,
  <<"OilPlatform", "Obstacle", "Structure", 0, FALSE, 900, 900, 600>>,
  <<"SuperOilPlatform", "Obstacle", "Structure", 0, FALSE, 900, 900, 600>>,
  <<"M230", "Turret", "Gun", 0, FALSE, 21, 2, 0>>,
  <<"Type730", "Turret", "Gun", 0, FALSE, 50, 32, 0>>,
  <<"Turbolaser", "Turret", "Gun", 0, FALSE, 10, 10, 0>>,
  <<"ShermanTurret", "Turret", "Gun", 0, FALSE, 33, 22, 0>>,
  <<"AbramsTurret", "Turret", "Gun", 0, FALSE, 79, 28, 0>>,
  <<"_100Mm", "Turret", "Gun", 0, FALSE, 67, 41, 0>>,
  <<"_200Mm", "Turret", "Gun", 0, FALSE, 67, 41, 0>>,
  <<"_2M3M", "Turret", "Gun", 0, FALSE, 29, 17, 0>>,
  <<"_38CmSkc34", "Turret", "Gun", 0, FALSE, 256, 111, 0>>,
  <<"_45Type94", "Turret", "Gun", 0, FALSE, 303, 164, 0>>,
  <<"_6Pounder", "Turret", "Gun", 0, FALSE, 26, 15, 0>>,
  <<"_88CmSkc35", "Turret", "Gun", 0, FALSE, 34, 18, 0>>,
  <<"_M1919", "Turret", "Gun", 0, FALSE, 13, 7, 0>>,
  <<"A190", "Turret", "Gun", 0, FALSE, 94, 36, 0>>,
  <<"Ak130", "Turret", "Gun", 0, FALSE, 84, 32, 0>>,
  <<"Ansaldo", "Turret", "Gun", 0, FALSE, 66, 34, 0>>,
  <<"Bl6MkXxiii", "Turret", "Gun", 0, FALSE, 119, 56, 0>>,
  <<"Bl6MkXxiiiX3", "Turret", "Gun", 0, FALSE, 123, 72, 0>>,
  <<"Bofors57MmMk3", "Turret", "Gun", 0, FALSE, 69, 42, 0>>,
  <<"Crotale", "Turret", "Missile", 0, FALSE, 35, 23, 0>>,
  <<"Hq10", "Turret", "Sam", 0, FALSE, 50, 37, 0>>,
  <<"Hpj38", "Turret", "Gun", 0, FALSE, 122, 36, 0>>,
  <<"Mark12", "Turret", "Gun", 0, FALSE, 73, 30, 0>>,
  <<"Mark12X2", "Turret", "Gun", 0, FALSE, 76, 43, 0>>,
  <<"Mark49", "Turret", "Sam", 0, FALSE, 30, 20, 0>>,
  <<"Mark51", "Turret", "Gun", 0, FALSE, 114, 63, 0>>,
  <<"Mark7", "Turret", "Gun", 0, FALSE, 300, 152, 0>>,
  <<"MarkBViii", "Turret", "Gun", 0, FALSE, 181, 81, 0>>,
  <<"Ogon", "Turret", "Rocket", 0, FALSE, 26, 26, 0>>,
  <<"OtoMelara76Mm", "Turret", "Gun", 0, FALSE, 73, 30, 0>>,
  <<"RatepKomar", "Turret", "Missile", 0, FALSE, 18, 20, 0>>,
  <<"Shtorm", "Turret", "Sam", 0, FALSE, 58, 31, 0>>,
  <<"VickersMkH12In", "Turret", "Gun", 0, FALSE, 166, 84, 0>>,
  <<"Blaster", "Weapon", "Laser", 0, FALSE, 20, 3, 0>>,
  <<"GreenBlaster", "Weapon", "Laser", 0, FALSE, 20, 3, 0>>,
  <<"VBlaster", "Weapon", "Laser", 0, FALSE, 20, 3, 0>>,
  <<"VProjector", "Weapon", "Shell", 0, FALSE, 250, 0, 0>>,
  <<"VMissiles", "Weapon", "Missile", 0, FALSE, 50, 60, 0>>,
  <<"_30X130MmR", "Weapon", "Shell", 0, FALSE, 1, 0, 0>>,
  <<"_30X165MmR", "Weapon", "Shell", 0, FALSE, 1, 0, 0>>,
  <<"_762X54MmR", "Weapon", "Shell", 0, FALSE, 7, 0, 0>>,
  <<"_200X1070MmR", "Weapon", "Shell", 0, FALSE, 10, 2, 0>>,
  <<"_127X680MmR", "Weapon", "Shell", 0, FALSE, 6, 1, 0>>,
  <<"_130X720MmR", "Weapon", "Shell", 0, FALSE, 7, 1, 0>>,
  <<"_75X667MmR", "Weapon", "TankShell", 0, FALSE, 6, 0, 0>>,
  <<"_120X570MmR", "Weapon", "TankShell", 0, FALSE, 5, 1, 0>>,
  <<"_25X129MmR", "Weapon", "Shell", 0, FALSE, 1, 0, 0>>,
  <<"_300X1400MmR", "Weapon", "Shell", 0, FALSE, 14, 3, 0>>,
  <<"_380X1700MmR", "Weapon", "Shell", 0, FALSE, 17, 3, 0>>,
  <<"_458X1980MmR", "Weapon", "Shell", 0, FALSE, 19, 4, 0>>,
  <<"_57X441MmR", "Weapon", "Shell", 0, FALSE, 4, 0, 0>>,
  <<"_76X636MmR", "Weapon", "Shell", 0, FALSE, 6, 0, 0>>,
  <<"_82R", "Weapon", "Torpedo", 4, FALSE, 32, 4, 0>>,
  <<"Asroc", "Weapon", "RocketTorpedo", 5, FALSE, 45, 8, 0>>,
  <<"Barak8", "Weapon", "Sam", 4, FALSE, 45, 7, 0>>,
  <<"Pl12", "Weapon", "Sam", 11, FALSE, 25, 5, 0>>,
  <<"BrahMos", "Weapon", "Missile", 5, FALSE, 84, 9, 0>>,
  <<"Hellfire", "Weapon", "Missile", 7, FALSE, 16, 1, 0>>,
  <<"CannonBall", "Weapon", "Shell", 0, FALSE, 0, 0, 0>>,
  <<"Depositor", "Weapon", "Depositor", 0, FALSE, 219, 51, 0>>,
  <<"Shovel", "Weapon", "Shovel", 0, FALSE, 219, 51, 0>>,
  <<"Essm", "Weapon", "Sam", 4, FALSE, 36, 4, 0>>,
  <<"Exocet", "Weapon", "Missile", 5, FALSE, 60, 9, 0>>,
  <<"Harpoon", "Weapon", "Missile", 4, FALSE, 38, 5, 0>>,
  <<"Hq9", "Weapon", "Sam", 4, FALSE, 68, 9, 0>>,
  <<"Igla", "Weapon", "Sam", 4, FALSE, 15, 1, 0>>,
  <<"Kalibr", "Weapon", "Missile", 4, FALSE, 81, 41, 0>>,
  <<"Lrlap", "Weapon", "Shell", 0, FALSE, 23, 2, 0>>,
  <<"Magic", "Weapon", "Sam", 5, FALSE, 27, 5, 0>>,
  <<"Mark18", "Weapon", "Torpedo", 1, FALSE, 62, 5, 0>>,
  <<"Mark48", "Weapon", "Torpedo", 4, FALSE, 58, 5, 0>>,
  <<"Mark54", "Weapon", "Torpedo", 4, FALSE, 27, 3, 0>>,
  <<"Yu7", "Weapon", "Torpedo", 7, FALSE, 27, 3, 0>>,
  <<"Mark8", "Weapon", "Shell", 0, FALSE, 16, 4, 0>>,
  <<"Mark9", "Weapon", "DepthCharge", 1, FALSE, 4, 7, 5>>,
  <<"Mistral", "Weapon", "Sam", 6, FALSE, 18, 1, 0>>,
  <<"Nsm", "Weapon", "Missile", 5, FALSE, 39, 10, 0>>,
  <<"Of45", "Weapon", "Rocket", 2, FALSE, 11, 2, 0>>,
  <<"RP3", "Weapon", "Rocket", 7, FALSE, 14, 0, 0>>,
  <<"P15", "Weapon", "Missile", 3, FALSE, 58, 20, 0>>,
  <<"P700", "Weapon", "Missile", 4, FALSE, 100, 29, 0>>,
  <<"Rbs15", "Weapon", "Missile", 3, FALSE, 43, 12, 0>>,
  <<"Rim116", "Weapon", "Sam", 4, FALSE, 27, 3, 0>>,
  <<"Rpk6", "Weapon", "RocketTorpedo", 6, FALSE, 65, 5, 0>>,
  <<"S300", "Weapon", "Sam", 5, FALSE, 66, 10, 0>>,
  <<"Set65", "Weapon", "Torpedo", 3, FALSE, 79, 5, 0>>,
  <<"Tomahawk", "Weapon", "Missile", 5, FALSE, 55, 26, 0>>,
  <<"Torped45", "Weapon", "Torpedo", 4, FALSE, 28, 4, 0>>,
  <<"Type53", "Weapon", "Torpedo", 1, FALSE, 72, 5, 0>>,
  <<"V611", "Weapon", "Sam", 4, FALSE, 61, 13, 0>>,
  <<"Vt1", "Weapon", "Sam", 5, FALSE, 23, 3, 0>>,
  <<"Hq10SAM", "Weapon", "Sam", 5, FALSE, 20, 1, 0>>,
  <<"Ls6", "Weapon", "GlideBomb", 10, FALSE, 21, 12, 0>>,
  <<"Wz0839", "Weapon", "Mine", 3, FALSE, 20, 26, 300>>,
  <<"Type96Bomb", "Weapon", "Mine", 3, FALSE, 10, 15, 15>>,
  <<"Mk82", "Weapon", "Mine", 10, FALSE, 22, 2, 20>>,
  <<"Yj18", "Weapon", "Missile", 5, FALSE, 81, 41, 0>> >>

\* The variant of each ordinal (ordinal i is at index i + 1).
VARIANTS == [i \in DOMAIN CATALOG |-> CATALOG[i][1]]

EntityType == {CATALOG[i][1] : i \in DOMAIN CATALOG}

\* EntityType::DATA, the table of EntityData, here keyed by variant.
DATA ==
  [t \in EntityType |->
     LET r == CATALOG[CHOOSE i \in DOMAIN CATALOG : CATALOG[i][1] = t]
     IN  Row(r[2], r[3], r[4], r[5], r[6], r[7], r[8])]

data(t) == DATA[t]

(***************************************************************************)
(* Score needed to qualify for a level (common::util::level_to_score).     *)
(* Only its monotonicity and its u32 range are documented; this instance   *)
(* is strictly increasing from level 1, which is free, as is level 0.      *)
(***************************************************************************)
level_to_score(level) == IF level = 0 THEN 0 ELSE (level * level - 1) * 10

(***************************************************************************)
(* EntityType::can_spawn_as                                                *)
(***************************************************************************)
\* Variant: the Drone gate written with "and" (bot && !moderator).
can_spawn_as_drone_and(self, s, b, m) ==
  IF (b /\ ~m) /\ data(self).sub_kind = "Drone"
  THEN FALSE
  ELSE /\ data(self).kind = "Boat"
       /\ level_to_score(data(self).level) <= s
       /\ (b \/ ~data(self).npc)

\* Variant: the kind test left out.
can_spawn_as_any_kind(self, s, b, m) ==
  IF (b \/ ~m) /\ data(self).sub_kind = "Drone"
  THEN FALSE
  ELSE /\ level_to_score(data(self).level) <= s
       /\ (b \/ ~data(self).npc)

can_spawn_as(self, s, b, m) ==
  IF (b \/ ~m) /\ data(self).sub_kind = "Drone"
  THEN FALSE
  ELSE /\ data(self).kind = "Boat"
       /\ level_to_score(data(self).level) <= s
       /\ (b \/ ~data(self).npc)

(***************************************************************************)
(* EntityType::can_upgrade_to: the rules are tried in order, the first     *)
(* that applies decides.                                                   *)
(***************************************************************************)
\* Variant: the generic rule without the level comparison.
can_upgrade_to_any_level(self, upgrade, s, b, m) ==
  IF m /\ data(upgrade).kind = data(self).kind THEN TRUE
  ELSE IF data(upgrade).sub_kind = "Drone" /\ ~m THEN FALSE
  ELSE IF b /\ upgrade = "Chinook" THEN FALSE
  ELSE IF b /\ upgrade = "Lst" THEN FALSE
  ELSE IF self = "Lst" /\ upgrade = "Sherman"
       THEN s < level_to_score(6) /\ s >= level_to_score(4)
  ELSE IF data(self).sub_kind = "Tank" /\ data(upgrade).sub_kind = "LandingShip"
       THEN TRUE
  ELSE IF data(self).sub_kind = "LandingShip" /\ data(upgrade).sub_kind = "Tank"
       THEN TRUE
  ELSE /\ data(upgrade).kind = data(self).kind
       /\ s >= level_to_score(data(upgrade).level)
       /\ (b \/ ~data(upgrade).npc)

\* Variant: the Lst -> Sherman window closed at its upper end.
can_upgrade_to_wide_window(self, upgrade, s, b, m) ==
  IF m /\ data(upgrade).kind = data(self).kind THEN TRUE
  ELSE IF data(upgrade).sub_kind = "Drone" /\ ~m THEN FALSE
  ELSE IF b /\ upgrade = "Chinook" THEN FALSE
  ELSE IF b /\ upgrade = "Lst" THEN FALSE
  ELSE IF self = "Lst" /\ upgrade = "Sherman"
       THEN s <= level_to_score(6) /\ s >= level_to_score(4)
  ELSE IF data(self).sub_kind = "Tank" /\ data(upgrade).sub_kind = "LandingShip"
       THEN TRUE
  ELSE IF data(self).sub_kind = "LandingShip" /\ data(upgrade).sub_kind = "Tank"
       THEN TRUE
  ELSE /\ data(upgrade).level > data(self).level
       /\ data(upgrade).kind = data(self).kind
       /\ s >= level_to_score(data(upgrade).level)
       /\ (b \/ ~data(upgrade).npc)

\* Variant: the moderator rule tried after the Drone and bot rules.
can_upgrade_to_moderator_late(self, upgrade, s, b, m) ==
  IF data(upgrade).sub_kind = "Drone" /\ ~m THEN FALSE
  ELSE IF b /\ upgrade = "Chinook" THEN FALSE
  ELSE IF b /\ upgrade = "Lst" THEN FALSE
  ELSE IF m /\ data(upgrade).kind = data(self).kind THEN TRUE
  ELSE IF self = "Lst" /\ upgrade = "Sherman"
       THEN s < level_to_score(6) /\ s >= level_to_score(4)
  ELSE IF data(self).sub_kind = "Tank" /\ data(upgrade).sub_kind = "LandingShip"
       THEN TRUE
  ELSE IF data(self).sub_kind = "LandingShip" /\ data(upgrade).sub_kind = "Tank"
       THEN TRUE
  ELSE /\ data(upgrade).level > data(self).level
       /\ data(upgrade).kind = data(self).kind
       /\ s >= level_to_score(data(upgrade).level)
       /\ (b \/ ~data(upgrade).npc)

\* Variant: the bot restrictions tried after the cross-grade rules.
can_upgrade_to_bot_rules_late(self, upgrade, s, b, m) ==
  IF m /\ data(upgrade).kind = data(self).kind THEN TRUE
  ELSE IF data(upgrade).sub_kind = "Drone" /\ ~m THEN FALSE
  ELSE IF self = "Lst" /\ upgrade = "Sherman"
       THEN s < level_to_score(6) /\ s >= level_to_score(4)
  ELSE IF data(self).sub_kind = "Tank" /\ data(upgrade).sub_kind = "LandingShip"
       THEN TRUE
  ELSE IF data(self).sub_kind = "LandingShip" /\ data(upgrade).sub_kind = "Tank"
       THEN TRUE
  ELSE IF b /\ upgrade = "Chinook" THEN FALSE
  ELSE IF b /\ upgrade = "Lst" THEN FALSE
  ELSE /\ data(upgrade).level > data(self).level
       /\ data(upgrade).kind = data(self).kind
       /\ s >= level_to_score(data(upgrade).level)
       /\ (b \/ ~data(upgrade).npc)

\* Variant: the Drone gate open to bots.
can_upgrade_to_drone_for_bots(self, upgrade, s, b, m) ==
  IF m /\ data(upgrade).kind = data(self).kind THEN TRUE
  ELSE IF data(upgrade).sub_kind = "Drone" /\ ~m THEN b
  ELSE IF b /\ upgrade = "Chinook" THEN FALSE
  ELSE IF b /\ upgrade = "Lst" THEN FALSE
  ELSE IF self = "Lst" /\ upgrade = "Sherman"
       THEN s < level_to_score(6) /\ s >= level_to_score(4)
  ELSE IF data(self).sub_kind = "Tank" /\ data(upgrade).sub_kind = "LandingShip"
       THEN TRUE
  ELSE IF data(self).sub_kind = "LandingShip" /\ data(upgrade).sub_kind = "Tank"
       THEN TRUE
  ELSE /\ data(upgrade).level > data(self).level
       /\ data(upgrade).kind = data(self).kind
       /\ s >= level_to_score(data(upgrade).level)
       /\ (b \/ ~data(upgrade).npc)

\* Variant: only the Tank -> LandingShip direction of the cross-grade.
can_upgrade_to_one_way(self, upgrade, s, b, m) ==
  IF m /\ data(upgrade).kind = data(self).kind THEN TRUE
  ELSE IF data(upgrade).sub_kind = "Drone" /\ ~m THEN FALSE
  ELSE IF b /\ upgrade = "Chinook" THEN FALSE
  ELSE IF b /\ upgrade = "Lst" THEN FALSE
  ELSE IF self = "Lst" /\ upgrade = "Sherman"
       THEN s < level_to_score(6) /\ s >= level_to_score(4)
  ELSE IF data(self).sub_kind = "Tank" /\ data(upgrade).sub_kind = "LandingShip"
       THEN TRUE
  ELSE /\ data(upgrade).level > data(self).level
       /\ data(upgrade).kind = data(self).kind
       /\ s >= level_to_score(data(upgrade).level)
       /\ (b \/ ~data(upgrade).npc)

\* Variant: the generic rule asks for more than the score of the level.
can_upgrade_to_strict_score(self, upgrade, s, b, m) ==
  IF m /\ data(upgrade).kind = data(self).kind THEN TRUE
  ELSE IF data(upgrade).sub_kind = "Drone" /\ ~m THEN FALSE
  ELSE IF b /\ upgrade = "Chinook" THEN FALSE
  ELSE IF b /\ upgrade = "Lst" THEN FALSE
  ELSE IF self = "Lst" /\ upgrade = "Sherman"
       THEN s < level_to_score(6) /\ s >= level_to_score(4)
  ELSE IF data(self).sub_kind = "Tank" /\ data(upgrade).sub_kind = "LandingShip"
       THEN TRUE
  ELSE IF data(self).sub_kind = "LandingShip" /\ data(upgrade).sub_kind = "Tank"
       THEN TRUE
  ELSE /\ data(upgrade).level > data(self).level
       /\ data(upgrade).kind = data(self).kind
       /\ s > level_to_score(data(upgrade).level)
       /\ (b \/ ~data(upgrade).npc)

can_upgrade_to(self, upgrade, s, b, m) ==
  IF m /\ data(upgrade).kind = data(self).kind THEN TRUE
  ELSE IF data(upgrade).sub_kind = "Drone" /\ ~m THEN FALSE
  ELSE IF b /\ upgrade = "Chinook" THEN FALSE
  ELSE IF b /\ upgrade = "Lst" THEN FALSE
  ELSE IF self = "Lst" /\ upgrade = "Sherman"
       THEN s < level_to_score(6) /\ s >= level_to_score(4)
  ELSE IF data(self).sub_kind = "Tank" /\ data(upgrade).sub_kind = "LandingShip"
       THEN TRUE
  ELSE IF data(self).sub_kind = "LandingShip" /\ data(upgrade).sub_kind = "Tank"
       THEN TRUE
  ELSE /\ data(upgrade).level > data(self).level
       /\ data(upgrade).kind = data(self).kind
       /\ s >= level_to_score(data(upgrade).level)
       /\ (b \/ ~data(upgrade).npc)

(***************************************************************************)
(* EntityType::spawn_options and EntityType::upgrade_options, as the set   *)
(* of the types their iterators visit.                                     *)
(***************************************************************************)
spawn_options(s, b, m) == {t \in EntityType : can_spawn_as(t, s, b, m)}

\* Variant: the early-out looks at the score alone.
upgrade_options_score_only(self, s, b, m) ==
  IF \/ s >= level_to_score(data(self).level)
     \/ m
  THEN {t \in EntityType : can_upgrade_to(self, t, s, b, m)}
  ELSE {}

upgrade_options(self, s, b, m) ==
  IF \/ s >= level_to_score(data(self).level)
     \/ data(self).sub_kind = "Tank"
     \/ data(self).sub_kind = "LandingShip"
     \/ m
  THEN {t \in EntityType : can_upgrade_to(self, t, s, b, m)}
  ELSE {}

(***************************************************************************)
(* Catalog-wide constants emitted by the catalog generator.                *)
(***************************************************************************)
Max(a, b) == IF a >= b THEN a ELSE b
Min(a, b) == IF a <= b THEN a ELSE b

\* The largest element of a non-empty set of numbers.
MaxOf(S) == CHOOSE m \in S : \A x \in S : x <= m

\* Variant: the fold over the entries keeps the smaller value, starting at 0.
MAX_RADIUS_fold_min == Min(0, MaxOf({Hypot(data(t).length, data(t).width) : t \in EntityType}))

MAX_RADIUS == MaxOf({Hypot(data(t).length, data(t).width) : t \in EntityType})

MAX_BOAT_LEVEL == MaxOf({0} \cup {data(t).level : t \in {u \in EntityType : data(u).kind = "Boat"}})

(***************************************************************************)
(* Bounds of the model.                                                    *)
(***************************************************************************)
\* Lattice step of the sampled positions (decimetres).
GridStep == 500
\* rng.gen::<Angle>() samples the directions 0..MaxDir.
MaxDir == 1
\* Number of entities already in the world when the operation is called.
MaxInitEntities == 1

\* Largest ticks argument of the modelled spawn_statics calls.
MaxTicks == 1
\* Largest number of entities in a world that explicit spawn_static calls
\* still add to.
MaxStatics == 3

\* Largest tick counter up to which ContextService::update is still called.
MaxCounter == 60

\* Largest number of messages the spawn overlay posts to its window.
MaxPosted == 4

\* Fixed-point scale of thresholds: TScale stands for 1.0.
TScale == 10000
\* Fixed-point scale of the search radius: LScale units to the decimetre.
LScale == 100

\* World::radius (decimetres) of the modelled arena.
WorldRadius == 1100

\* common::terrain::SCALE, the side of a terrain cell (decimetres).
SCALE == 250

\* Land cells of the modelled terrain: cell <<i, j>> covers
\* [i * SCALE, (i + 1) * SCALE] x [j * SCALE, (j + 1) * SCALE].
Island == {<<3, 0>>, <<3, -1>>}

\* Types spawned by the modelled calls, and types of pre-existing entities.
SpawnTypes == {"Olympias", "Sherman", "Acacia"}
InitTypes == {"Fletcher", "Olympias", "OilPlatform", "Crate"}
\* Types the background spawning places or counts.
StaticTypes == {"Crate", "OilPlatform", "Hq", "Acacia"}
\* Types can_spawn is probed with, one or two of each kind, and types of the
\* entities of the probed worlds.
ProbeTypes ==
  {"Olympias", "Sherman", "Acacia", "M230", "Moskit", "Mk70", "Crate", "Avenger"}
ProbeWorldTypes == {"Fletcher", "Olympias", "OilPlatform", "Crate"}
WorldTypes == SpawnTypes \cup InitTypes \cup StaticTypes \cup ProbeTypes \cup ProbeWorldTypes

Directions == 0..MaxDir
\* The offsets gen_radius is sampled at.
Offsets ==
  {<<-2 * GridStep, 0>>, <<-GridStep, 0>>, <<0, 0>>, <<GridStep, 0>>,
   <<2 * GridStep, 0>>, <<0, GridStep>>}
\* Positions of the entity handed to spawn_here_or_nearby and to try_spawn.
Centers == {<<0, 0>>}
TryPositions ==
  {<<0, 0>>, <<-GridStep, 0>>, <<GridStep, 0>>, <<2 * GridStep, 0>>, <<3 * GridStep, 0>>}
InitPositions == {<<-GridStep, 0>>}
\* initial_radius arguments (decimetres): below one metre, mid-range, and
\* above 0.85 * WorldRadius.
InitialRadii == {5, 600, 1050}

VARIABLES
  self_type, score, bot, moderator, options, query,
  entities, arena, terrain, land_based,
  pc, op, entity, initial_radius, center, radius, threshold, governor,
  spawned, pre, attempts,
  ticks, static_type, todo, platform_count,
  argument,
  human_readable, wire, decoded,
  counter, tick_pc, calls,
  score_to_coins, coin_amount, loot_amount, loot_table, loot_pc, emitted, item,
  alive,
  splash_pc, transitioning, paused, transitioning_dep, listener, timeout,
  animation, posted

policy_vars == <<self_type, score, bot, moderator, options, query>>
world_vars == <<entities, arena, terrain, land_based>>
call_vars == <<pc, op, entity, initial_radius, center, radius, threshold,
               governor, spawned, pre, attempts>>
statics_vars == <<ticks, static_type, todo, platform_count>>
serde_vars == <<human_readable, wire, decoded>>
tick_vars == <<counter, tick_pc, calls>>
loot_vars == <<score_to_coins, coin_amount, loot_amount, loot_table, loot_pc,
               emitted, item>>
player_vars == <<alive>>
splash_vars == <<splash_pc, transitioning, paused, transitioning_dep, listener,
                 timeout, animation, posted>>
rest_vars == <<loot_vars, player_vars, splash_vars>>
other_vars == <<argument, serde_vars, tick_vars, rest_vars>>
vars == <<policy_vars, world_vars, call_vars, statics_vars, other_vars>>

(***************************************************************************)
(* Geometry and the collaborators of the spawn subsystem.                  *)
(***************************************************************************)
Add2(p, q) == <<p[1] + q[1], p[2] + q[2]>>
length_squared(p) == p[1] * p[1] + p[2] * p[2]
distance_squared(p, q) == length_squared(<<p[1] - q[1], p[2] - q[2]>>)

\* d2 <= r^2 for r >= 0, without squaring an r whose square is out of range.
WithinSq(d2, r) == r > 46340 \/ d2 <= r * r

\* Terrain::land_in_square: some land cell meets the axis-aligned square of
\* the given side centred at c (compared at twice the scale, so that half
\* the side needs no rounding).
land_in_square(terr, c, side) ==
  \E cell \in terr :
    /\ 2 * cell[1] * SCALE <= 2 * c[1] + side
    /\ 2 * (cell[1] + 1) * SCALE >= 2 * c[1] - side
    /\ 2 * cell[2] * SCALE <= 2 * c[2] + side
    /\ 2 * (cell[2] + 1) * SCALE >= 2 * c[2] - side

\* Entity::data, Entity::is_boat and EntityData::is_land_based.
edata(e) == data(e.entity_type)
is_boat(e) == edata(e).kind = "Boat"
is_land_based(d) == d.sub_kind \in land_based

\* Entity::collides_with(other, 0.0), Entity::collides_with_terrain(terrain, 0.0).
collides_with(e, o) ==
  WithinSq(distance_squared(e.position, o.position), edata(e).radius + edata(o).radius)
collides_with_terrain(e, terr) == land_in_square(terr, e.position, 2 * edata(e).radius)

\* EntityIndex::iter_radius: the indices of the entities within r of c.
iter_radius(es, c, r) ==
  {i \in DOMAIN es : WithinSq(distance_squared(es[i].position, c), r)}

\* A fixed-point product: x times the threshold th.
Times(x, th) == (x * th) \div TScale

(***************************************************************************)
(* World::can_spawn on the world's entities es.  The caller's threshold is *)
(* at least 1.0 (below it the code panics: see invalid_threshold).         *)
(***************************************************************************)
invalid_threshold(th) == th < TScale

\* Variant: the full threshold for every pair.
safe_distance_always_threshold(e, o, th) ==
  Times(edata(e).radius + edata(o).radius, th)

safe_distance(e, o, th) ==
  IF is_boat(e) /\ is_boat(o) /\ edata(o).level > 2
  THEN Times(edata(e).radius + edata(o).radius, th)
  ELSE Times(edata(e).radius + edata(o).radius, Max(th \div 2, TScale))

\* Variant: the world check comes after the checks that return early.
can_spawn_world_check_late(es, e, th) ==
  LET d == edata(e)
      max_collision_radius == d.radius + MAX_RADIUS
  IN
  IF d.kind \in {"Decoy", "Weapon"} THEN
    IF \E i \in iter_radius(es, e.position, max_collision_radius) :
         edata(es[i]).kind = "Obstacle" /\ collides_with(e, es[i])
    THEN FALSE
    ELSE ~collides_with_terrain(e, terrain)
  ELSE IF d.kind \in {"Collectible", "Aircraft"} THEN
    ~collides_with_terrain(e, terrain)
  ELSE IF length_squared(e.position) > WorldRadius * WorldRadius THEN FALSE
  ELSE IF land_in_square(terrain, e.position, Times((d.radius + SCALE) * 2, th))
            # is_land_based(d)
  THEN FALSE
  ELSE
    ~ \E i \in iter_radius(es, e.position, Times(max_collision_radius, th)) :
         /\ edata(es[i]).kind # "Collectible"
         /\ WithinSq(distance_squared(e.position, es[i].position),
                     safe_distance(e, es[i], th))

\* Variant: any entity, not only an obstacle, blocks a decoy or a weapon.
can_spawn_any_blocks_weapon(es, e, th) ==
  LET d == edata(e)
      max_collision_radius == d.radius + MAX_RADIUS
  IN
  IF length_squared(e.position) > WorldRadius * WorldRadius THEN FALSE
  ELSE IF d.kind \in {"Decoy", "Weapon"} THEN
    IF \E i \in iter_radius(es, e.position, max_collision_radius) :
         collides_with(e, es[i])
    THEN FALSE
    ELSE ~collides_with_terrain(e, terrain)
  ELSE IF d.kind \in {"Collectible", "Aircraft"} THEN
    ~collides_with_terrain(e, terrain)
  ELSE IF land_in_square(terrain, e.position, Times((d.radius + SCALE) * 2, th))
            # is_land_based(d)
  THEN FALSE
  ELSE
    ~ \E i \in iter_radius(es, e.position, Times(max_collision_radius, th)) :
         /\ edata(es[i]).kind # "Collectible"
         /\ WithinSq(distance_squared(e.position, es[i].position),
                     safe_distance(e, es[i], th))

\* Variant: only water-based entities are checked against the terrain.
can_spawn_land_unchecked(es, e, th) ==
  LET d == edata(e)
      max_collision_radius == d.radius + MAX_RADIUS
  IN
  IF length_squared(e.position) > WorldRadius * WorldRadius THEN FALSE
  ELSE IF d.kind \in {"Decoy", "Weapon"} THEN
    IF \E i \in iter_radius(es, e.position, max_collision_radius) :
         edata(es[i]).kind = "Obstacle" /\ collides_with(e, es[i])
    THEN FALSE
    ELSE ~collides_with_terrain(e, terrain)
  ELSE IF d.kind \in {"Collectible", "Aircraft"} THEN
    ~collides_with_terrain(e, terrain)
  ELSE IF land_in_square(terrain, e.position, Times((d.radius + SCALE) * 2, th))
            /\ ~is_land_based(d)
  THEN FALSE
  ELSE
    ~ \E i \in iter_radius(es, e.position, Times(max_collision_radius, th)) :
         /\ edata(es[i]).kind # "Collectible"
         /\ WithinSq(distance_squared(e.position, es[i].position),
                     safe_distance(e, es[i], th))

\* Variant: collectibles block like any other entity.
can_spawn_collectibles_block(es, e, th) ==
  LET d == edata(e)
      max_collision_radius == d.radius + MAX_RADIUS
  IN
  IF length_squared(e.position) > WorldRadius * WorldRadius THEN FALSE
  ELSE IF d.kind \in {"Decoy", "Weapon"} THEN
    IF \E i \in iter_radius(es, e.position, max_collision_radius) :
         edata(es[i]).kind = "Obstacle" /\ collides_with(e, es[i])
    THEN FALSE
    ELSE ~collides_with_terrain(e, terrain)
  ELSE IF d.kind \in {"Collectible", "Aircraft"} THEN
    ~collides_with_terrain(e, terrain)
  ELSE IF land_in_square(terrain, e.position, Times((d.radius + SCALE) * 2, th))
            # is_land_based(d)
  THEN FALSE
  ELSE
    ~ \E i \in iter_radius(es, e.position, Times(max_collision_radius, th)) :
         /\ WithinSq(distance_squared(e.position, es[i].position),
                     safe_distance(e, es[i], th))

can_spawn(es, e, th) ==
  LET d == edata(e)
      max_collision_radius == d.radius + MAX_RADIUS
  IN
  IF length_squared(e.position) > WorldRadius * WorldRadius THEN FALSE
  ELSE IF d.kind \in {"Decoy", "Weapon"} THEN
    IF \E i \in iter_radius(es, e.position, max_collision_radius) :
         edata(es[i]).kind = "Obstacle" /\ collides_with(e, es[i])
    THEN FALSE
    ELSE ~collides_with_terrain(e, terrain)
  ELSE IF d.kind \in {"Collectible", "Aircraft"} THEN
    ~collides_with_terrain(e, terrain)
  ELSE IF land_in_square(terrain, e.position, Times((d.radius + SCALE) * 2, th))
            # is_land_based(d)
  THEN FALSE
  ELSE
    ~ \E i \in iter_radius(es, e.position, Times(max_collision_radius, th)) :
         /\ edata(es[i]).kind # "Collectible"
         /\ WithinSq(distance_squared(e.position, es[i].position),
                     safe_distance(e, es[i], th))

(***************************************************************************)
(* World::add and World::try_spawn, as the world they leave and the value  *)
(* returned.                                                               *)
(***************************************************************************)
add(es, e) == Append(es, e)
count_add(ar, e) == [ar EXCEPT ![e.entity_type] = @ + 1]

\* Variant: the entity is added even when the check fails.
try_spawn_adds_on_failure(es, ar, e) ==
  [entities |-> add(es, e), arena |-> count_add(ar, e),
   spawned |-> can_spawn(es, e, TScale)]

\* Variant: no check at all.
try_spawn_unchecked(es, ar, e) ==
  [entities |-> add(es, e), arena |-> count_add(ar, e), spawned |-> TRUE]

try_spawn(es, ar, e) ==
  IF can_spawn(es, e, TScale)
  THEN [entities |-> add(es, e), arena |-> count_add(ar, e), spawned |-> TRUE]
  ELSE [entities |-> es, arena |-> ar, spawned |-> FALSE]

(***************************************************************************)
(* Inputs: the entity handed to a spawn call, and the worlds a call may    *)
(* find (built by successive try_spawn calls on an empty world).           *)
(***************************************************************************)
NewEntity(t, p) ==
  [entity_type |-> t, position |-> p, direction |-> 0, direction_target |-> 0,
   ticks |-> 0, velocity |-> 0, velocity_target |-> 0,
   player |-> IF data(t).kind = "Boat" THEN "Some" ELSE "None"]

RECURSIVE InitWorlds(_)
InitWorlds(n) ==
  IF n = 0 THEN {<<>>}
  ELSE LET W == InitWorlds(n - 1)
       IN  W \cup {add(w, NewEntity(t, p)) :
                     <<w, t, p>> \in {x \in W \X InitTypes \X InitPositions :
                                        /\ Len(x[1]) = n - 1
                                        /\ can_spawn(x[1], NewEntity(x[2], x[3]), TScale)}}

count(es, t) == Cardinality({i \in DOMAIN es : es[i].entity_type = t})

(***************************************************************************)
(* Policy queries.                                                         *)
(***************************************************************************)
Scores ==
  UNION {{level_to_score(l) - 1, level_to_score(l)} : l \in 1..MAX_BOAT_LEVEL} \ {-1}

PolicyInit ==
  /\ self_type \in EntityType
  /\ score \in Scores
  /\ bot \in BOOLEAN
  /\ moderator \in BOOLEAN
  /\ options = {}
  /\ query = "none"

SpawnOptions ==
  /\ query = "none"
  /\ options' = spawn_options(score, bot, moderator)
  /\ query' = "spawn_options"
  /\ UNCHANGED <<self_type, score, bot, moderator>>

UpgradeOptions ==
  /\ query = "none"
  /\ options' = upgrade_options(self_type, score, bot, moderator)
  /\ query' = "upgrade_options"
  /\ UNCHANGED <<self_type, score, bot, moderator>>

(***************************************************************************)
(* Spawn calls.                                                            *)
(***************************************************************************)
\* governor -= 1 on a u32: below zero the value leaves the range (a panic or
\* a wrap-around, by build), shown as -1.
Decrement(g) == IF g = 0 THEN -1 ELSE g - 1

WorldInit ==
  /\ terrain = Island
  /\ land_based \in {{"Tree"}, {"Tree", "Tank"}}
  /\ entities \in InitWorlds(MaxInitEntities)
  /\ arena = [t \in WorldTypes |-> count(entities, t)]

CallInit ==
  /\ pc = "idle"
  /\ op = "none"
  /\ entity = NewEntity("Crate", <<0, 0>>)
  /\ initial_radius = 0
  /\ center = <<0, 0>>
  /\ radius = 0
  /\ threshold = TScale
  /\ governor = 0
  /\ spawned = FALSE
  /\ pre = entities
  /\ attempts = 0

\* World::try_spawn(entity), called on its own.
TrySpawn(e) ==
  /\ pc = "idle"
  /\ LET r == try_spawn(entities, arena, e)
     IN  /\ entities' = r.entities
         /\ arena' = r.arena
         /\ spawned' = r.spawned
  /\ op' = "try_spawn"
  /\ entity' = e
  /\ pre' = entities
  /\ pc' = "returned"
  /\ UNCHANGED <<initial_radius, center, radius, threshold, governor, attempts>>
  /\ UNCHANGED <<terrain, land_based>>

\* Variant: the guidance is fixed even when there is no retry.
SpawnHere_fixes_guidance(e) ==
  /\ pc = "idle"
  /\ LET g == [e EXCEPT !.direction_target = e.direction]
         r == try_spawn(entities, arena, g)
     IN  /\ entities' = r.entities
         /\ arena' = r.arena
         /\ spawned' = r.spawned
         /\ entity' = g
  /\ op' = "spawn_here_or_nearby"
  /\ argument' = e
  /\ initial_radius' = 0
  /\ pre' = entities
  /\ pc' = "returned"
  /\ UNCHANGED <<center, radius, threshold, governor, attempts>>
  /\ UNCHANGED <<terrain, land_based>>

\* World::spawn_here_or_nearby(entity, 0): no retry, straight to try_spawn.
SpawnHere(e) ==
  /\ pc = "idle"
  /\ LET r == try_spawn(entities, arena, e)
     IN  /\ entities' = r.entities
         /\ arena' = r.arena
         /\ spawned' = r.spawned
  /\ op' = "spawn_here_or_nearby"
  /\ argument' = e
  /\ entity' = e
  /\ initial_radius' = 0
  /\ pre' = entities
  /\ pc' = "returned"
  /\ UNCHANGED <<center, radius, threshold, governor, attempts>>
  /\ UNCHANGED <<terrain, land_based>>

\* Variant: the search starts at the world radius.
SpawnNearby_wide(e, r) ==
  /\ pc = "idle"
  /\ r > 0
  /\ op' = "spawn_here_or_nearby"
  /\ argument' = e
  /\ entity' = e
  /\ initial_radius' = r
  /\ radius' = WorldRadius * LScale
  /\ center' = e.position
  /\ threshold' = 6 * TScale
  /\ governor' = IF is_boat(e) THEN 128 ELSE 8
  /\ pre' = entities
  /\ attempts' = 0
  /\ pc' = "loop"
  /\ UNCHANGED <<spawned, world_vars>>

\* World::spawn_here_or_nearby(entity, r) with r > 0: entry, up to the loop.
SpawnNearby(e, r) ==
  /\ pc = "idle"
  /\ r > 0
  /\ op' = "spawn_here_or_nearby"
  /\ argument' = e
  /\ entity' = e
  /\ initial_radius' = r
  /\ radius' = Max(r * LScale, 10 * LScale)
  /\ center' = e.position
  /\ threshold' = 6 * TScale
  /\ governor' = IF is_boat(e) THEN 128 ELSE 8
  /\ pre' = entities
  /\ attempts' = 0
  /\ pc' = "loop"
  /\ UNCHANGED <<spawned, world_vars>>

\* Variant: a candidate is retried only when it cannot spawn.
retry_condition_untested_center == ~can_spawn(entities, entity, threshold)

\* The loop condition of spawn_here_or_nearby.
retry_condition == entity.position = center \/ ~can_spawn(entities, entity, threshold)

\* gen_radius(rng, radius): the sampled offsets within the radius.
gen_radius(r) == {o \in Offsets : WithinSq(length_squared(o), r \div LScale)}

\* Variant: the loop without its break.
Retry_no_break(position, direction) ==
  /\ pc = "loop"
  /\ retry_condition
  /\ entity' = [entity EXCEPT !.position = Add2(center, position),
                              !.direction = direction]
  /\ radius' = Min((radius * 11) \div 10, (WorldRadius * LScale * 85) \div 100)
  /\ threshold' = TScale \div 20 + (threshold * 95) \div 100
  /\ governor' = Decrement(governor)
  /\ attempts' = attempts + 1
  /\ pc' = "loop"
  /\ UNCHANGED <<op, initial_radius, center, spawned, pre, world_vars>>

\* Variant: every candidate is put into the world as it is drawn.
Retry_inserting(position, direction) ==
  /\ pc = "loop"
  /\ retry_condition
  /\ entity' = [entity EXCEPT !.position = Add2(center, position),
                              !.direction = direction]
  /\ radius' = Min((radius * 11) \div 10, (WorldRadius * LScale * 85) \div 100)
  /\ threshold' = TScale \div 20 + (threshold * 95) \div 100
  /\ governor' = Decrement(governor)
  /\ attempts' = attempts + 1
  /\ pc' = IF governor' = 0 THEN "placed" ELSE "loop"
  /\ entities' = add(entities, entity')
  /\ arena' = count_add(arena, entity')
  /\ UNCHANGED <<op, initial_radius, center, spawned, pre, terrain, land_based>>

\* Variant: the threshold decays towards 0 instead of 1.
Retry_threshold_decays(position, direction) ==
  /\ pc = "loop"
  /\ retry_condition
  /\ entity' = [entity EXCEPT !.position = Add2(center, position),
                              !.direction = direction]
  /\ radius' = Min((radius * 11) \div 10, (WorldRadius * LScale * 85) \div 100)
  /\ threshold' = (threshold * 95) \div 100
  /\ governor' = Decrement(governor)
  /\ attempts' = attempts + 1
  /\ pc' = IF governor' = 0 THEN "placed" ELSE "loop"
  /\ UNCHANGED <<op, initial_radius, center, spawned, pre, world_vars>>

\* Variant: radius and threshold are advanced from the second draw on.
Retry_advances_after_test(position, direction) ==
  /\ pc = "loop"
  /\ retry_condition
  /\ entity' = [entity EXCEPT !.position = Add2(center, position),
                              !.direction = direction]
  /\ radius' = IF attempts = 0 THEN radius
               ELSE Min((radius * 11) \div 10, (WorldRadius * LScale * 85) \div 100)
  /\ threshold' = IF attempts = 0 THEN threshold
                  ELSE TScale \div 20 + (threshold * 95) \div 100
  /\ governor' = Decrement(governor)
  /\ attempts' = attempts + 1
  /\ pc' = IF governor' = 0 THEN "placed" ELSE "loop"
  /\ UNCHANGED <<op, initial_radius, center, spawned, pre, world_vars>>

\* One iteration of the retry loop.
Retry(position, direction) ==
  /\ pc = "loop"
  /\ retry_condition
  /\ entity' = [entity EXCEPT !.position = Add2(center, position),
                              !.direction = direction]
  /\ radius' = Min((radius * 11) \div 10, (WorldRadius * LScale * 85) \div 100)
  /\ threshold' = TScale \div 20 + (threshold * 95) \div 100
  /\ governor' = Decrement(governor)
  /\ attempts' = attempts + 1
  /\ pc' = IF governor' = 0 THEN "placed" ELSE "loop"
  /\ UNCHANGED <<op, initial_radius, center, spawned, pre, world_vars>>

\* The loop condition fails: the candidate is accepted.
Accept ==
  /\ pc = "loop"
  /\ ~retry_condition
  /\ pc' = "placed"
  /\ UNCHANGED <<op, entity, initial_radius, center, radius, threshold, governor,
                 spawned, pre, attempts, world_vars>>

\* Variant: an exhausted governor returns false without a last try_spawn.
Place_gives_up ==
  /\ pc = "placed"
  /\ LET e == [entity EXCEPT !.direction_target = entity.direction]
         r == IF governor = 0
              THEN [entities |-> entities, arena |-> arena, spawned |-> FALSE]
              ELSE try_spawn(entities, arena, e)
     IN  /\ entity' = e
         /\ entities' = r.entities
         /\ arena' = r.arena
         /\ spawned' = r.spawned
  /\ pc' = "returned"
  /\ UNCHANGED <<op, initial_radius, center, radius, threshold, governor, pre,
                 attempts>>
  /\ UNCHANGED <<terrain, land_based>>

\* After the loop: fix the guidance, try_spawn, return.
Place ==
  /\ pc = "placed"
  /\ LET e == [entity EXCEPT !.direction_target = entity.direction]
         r == try_spawn(entities, arena, e)
     IN  /\ entity' = e
         /\ entities' = r.entities
         /\ arena' = r.arena
         /\ spawned' = r.spawned
  /\ pc' = "returned"
  /\ UNCHANGED <<op, initial_radius, center, radius, threshold, governor, pre,
                 attempts>>
  /\ UNCHANGED <<terrain, land_based>>

(***************************************************************************)
(* Background spawning: World::spawn_statics, spawn_static_amount and      *)
(* spawn_static.                                                           *)
(***************************************************************************)
\* Square metres of world per crate, per obstacle and per plant: the
\* inverses of CRATE_DENSITY, OBSTACLE_DENSITY and VEGETATION_DENSITY.
CRATE_DENSITY == 30000
OBSTACLE_DENSITY == 1000000
VEGETATION_DENSITY == 100000

CeilDiv(a, b) == (a + b - 1) \div b
saturating_sub(a, b) == IF a > b THEN a - b ELSE 0

\* World::target_count(density): world area times density, rounded up, with
\* pi taken as 355/113 and the radius in decimetres.
target_count(density) ==
  CeilDiv(CeilDiv(355 * WorldRadius * WorldRadius, 113 * 100), density)

\* rng.gen::<f32>(), sampled in eighths, and the rng.gen::<Angle>() values
\* drawn where explicit spawns widen the set of worlds.
RngEighths == {7}
StaticDirections == {MaxDir}

\* Variant: the guidance takes over the velocity, and points to angle 0.
spawn_static_moving_guidance(es, ar, t, position, direction, velocity, age) ==
  try_spawn(es, ar,
            [entity_type |-> t, position |-> position, direction |-> direction,
             direction_target |-> 0, ticks |-> age, velocity |-> velocity,
             velocity_target |-> velocity, player |-> "None"])

\* World::spawn_static: try_spawn of a fresh entity with default guidance;
\* the result of try_spawn is dropped by the caller.
spawn_static(es, ar, t, position, direction, velocity, age) ==
  try_spawn(es, ar,
            [entity_type |-> t, position |-> position, direction |-> direction,
             direction_target |-> direction, ticks |-> age, velocity |-> velocity,
             velocity_target |-> 0, player |-> "None"])

\* The variables of the operations that are not running.
\* Nothing on the wire yet, a serializer that panicked, nothing decoded yet.
Unwritten == [form |-> "none"]
Panicked == [form |-> "panic"]
Undecoded == [pending |-> TRUE]

\* No loot iterator has been made.
LootIdle ==
  /\ score_to_coins = FALSE /\ coin_amount = 0 /\ loot_amount = 0
  /\ loot_table = <<>> /\ loot_pc = "idle" /\ emitted = 0 /\ item = "none"

\* No player has a boat.
PlayerIdle == alive = FALSE

\* The spawn overlay is not mounted.
SplashIdle ==
  /\ splash_pc = "unmounted" /\ transitioning = FALSE /\ paused = FALSE
  /\ transitioning_dep = "none" /\ listener = "none" /\ timeout = "none"
  /\ animation = "none" /\ posted = <<>>

RestIdle == LootIdle /\ PlayerIdle /\ SplashIdle

OtherIdle ==
  /\ RestIdle
  /\ argument = NewEntity("Crate", <<0, 0>>)
  /\ human_readable = FALSE /\ wire = Unwritten /\ decoded = Undecoded
  /\ counter = 0 /\ tick_pc = "idle" /\ calls = <<>>

StaticsIdle ==
  /\ ticks = 0
  /\ static_type = "Crate"
  /\ todo = 0
  /\ platform_count = 0

\* Variant: the number of iterations ignores the current count.
spawn_static_amount_count_ignored(current, target, rate) == Min(target, rate)

\* The number of iterations of the loop of spawn_static_amount.
spawn_static_amount(current, target, rate) ==
  Min(saturating_sub(target, current), rate)

\* World::spawn_statics(ticks): entry, up to the first spawn_static_amount.
SpawnStatics(t) ==
  /\ pc = "idle"
  /\ op' = "spawn_statics"
  /\ ticks' = t
  /\ pre' = entities
  /\ platform_count' = arena["OilPlatform"] + arena["Hq"]
  /\ static_type' = "Crate"
  /\ todo' = spawn_static_amount(arena["Crate"], target_count(CRATE_DENSITY), t * 150)
  /\ pc' = "statics"
  /\ UNCHANGED <<entity, initial_radius, center, radius, threshold, governor,
                 spawned, attempts, world_vars>>

\* Variant: an iteration that leaves the loop counter alone.
SpawnStaticAmount_unbounded(position, direction, eighths) ==
  /\ pc = "statics"
  /\ todo > 0
  /\ LET lifespan == data(static_type).lifespan
         age == IF lifespan # 0 THEN (lifespan * eighths) \div 32 ELSE 0
         r == spawn_static(entities, arena, static_type, position, direction, 0, age)
     IN  /\ entities' = r.entities
         /\ arena' = r.arena
  /\ Len(entities') <= 2 * MaxStatics + 4
  /\ UNCHANGED <<todo, terrain, land_based, call_vars, ticks, static_type, platform_count>>

\* One iteration of the loop of spawn_static_amount.
SpawnStaticAmount(position, direction, eighths) ==
  /\ pc = "statics"
  /\ todo > 0
  /\ LET lifespan == data(static_type).lifespan
         age == IF lifespan # 0 THEN (lifespan * eighths) \div 32 ELSE 0
         r == spawn_static(entities, arena, static_type, position, direction, 0, age)
     IN  /\ entities' = r.entities
         /\ arena' = r.arena
  /\ todo' = todo - 1
  /\ UNCHANGED <<terrain, land_based, call_vars, ticks, static_type, platform_count>>

\* Variant: the vegetation is refilled up to the target of the crates.
NextStatic_crate_target ==
  /\ pc = "statics"
  /\ todo = 0
  /\ IF static_type = "Crate"
     THEN /\ static_type' = "OilPlatform"
          /\ todo' = spawn_static_amount(platform_count,
                                         target_count(OBSTACLE_DENSITY), ticks * 2)
          /\ pc' = "statics"
     ELSE IF static_type = "OilPlatform"
     THEN /\ static_type' = "Acacia"
          /\ todo' = spawn_static_amount(arena["Acacia"],
                                         Max(target_count(CRATE_DENSITY), 0), ticks)
          /\ pc' = "statics"
     ELSE /\ static_type' = "Crate"
          /\ todo' = 0
          /\ pc' = "idle"
  /\ UNCHANGED <<op, entity, initial_radius, center, radius, threshold, governor,
                 spawned, pre, attempts, world_vars, ticks, platform_count>>

\* The loop of spawn_static_amount is over: spawn_statics goes on to the
\* next type, or returns.
NextStatic ==
  /\ pc = "statics"
  /\ todo = 0
  /\ IF static_type = "Crate"
     THEN /\ static_type' = "OilPlatform"
          /\ todo' = spawn_static_amount(platform_count,
                                         target_count(OBSTACLE_DENSITY), ticks * 2)
          /\ pc' = "statics"
     ELSE IF static_type = "OilPlatform"
     THEN /\ static_type' = "Acacia"
          /\ todo' = spawn_static_amount(arena["Acacia"],
                                         Max(target_count(VEGETATION_DENSITY), 0), ticks)
          /\ pc' = "statics"
     ELSE /\ static_type' = "Crate"
          /\ todo' = 0
          /\ pc' = "idle"
  /\ UNCHANGED <<op, entity, initial_radius, center, radius, threshold, governor,
                 spawned, pre, attempts, world_vars, ticks, platform_count>>

\* World::spawn_static called on its own (an explicit spawn, as of loot).
SpawnStatic(t, position, direction, velocity, age) ==
  /\ pc = "idle"
  /\ Len(entities) < MaxStatics
  /\ LET r == spawn_static(entities, arena, t, position, direction, velocity, age)
     IN  /\ entities' = r.entities
         /\ arena' = r.arena
  /\ op' = "spawn_static"
  /\ pre' = entities
  /\ UNCHANGED <<pc, entity, initial_radius, center, radius, threshold, governor,
                 spawned, attempts, terrain, land_based, statics_vars>>

TryEntities == {NewEntity(t, p) : t \in SpawnTypes, p \in TryPositions}
\* Entities handed to spawn_here_or_nearby(entity, 0): also some whose
\* guidance does not point where they head.
HereEntities ==
  TryEntities \cup {[e EXCEPT !.direction_target = MaxDir] : e \in TryEntities}
NearbyEntities == {NewEntity(t, p) : t \in SpawnTypes, p \in Centers}

Init ==
  /\ self_type = "Abrams" /\ score = 0 /\ bot = FALSE /\ moderator = FALSE
  /\ options = {} /\ query = "none"
  /\ WorldInit
  /\ CallInit
  /\ StaticsIdle
  /\ OtherIdle

Next ==
  \/ \E e \in TryEntities : TrySpawn(e) /\ UNCHANGED <<policy_vars, statics_vars, other_vars>>
  \/ \E e \in HereEntities :
       SpawnHere(e) /\ UNCHANGED <<policy_vars, statics_vars, serde_vars, tick_vars, rest_vars>>
  \/ \E e \in NearbyEntities, r \in InitialRadii : SpawnNearby(e, r) /\ UNCHANGED <<policy_vars, statics_vars, serde_vars, tick_vars, rest_vars>>
  \/ \E o \in gen_radius(radius), d \in Directions : Retry(o, d) /\ UNCHANGED <<policy_vars, statics_vars, other_vars>>
  \/ Accept /\ UNCHANGED <<policy_vars, statics_vars, other_vars>>
  \/ Place /\ UNCHANGED <<policy_vars, statics_vars, other_vars>>

Spec == Init /\ [][Next]_vars

PolicyStart ==
  /\ PolicyInit
  /\ terrain = Island /\ land_based = {"Tree"} /\ entities = <<>>
  /\ arena = [t \in WorldTypes |-> 0]
  /\ CallInit
  /\ StaticsIdle
  /\ OtherIdle

PolicyNext ==
  \/ SpawnOptions /\ UNCHANGED <<world_vars, call_vars, statics_vars, other_vars>>
  \/ UpgradeOptions /\ UNCHANGED <<world_vars, call_vars, statics_vars, other_vars>>

PolicySpec == PolicyStart /\ [][PolicyNext]_vars

\* Background spawning in a world that explicit spawn_static calls also add
\* to.
StaticDraws ==
  gen_radius(WorldRadius * LScale) \cap {<<-GridStep, 0>>, <<GridStep, 0>>, <<2 * GridStep, 0>>}
ExplicitTypes == {"Crate", "Hq", "Acacia"}
ExplicitPositions == StaticDraws \cup {<<GridStep, GridStep>>}
\* Velocity and age (ticks) of the explicit spawns: at rest and new, or
\* (for one of the types) moving and aged as loot is.
ExplicitMotions(t) == IF t = "Crate" THEN {<<0, 0>>, <<10, 45>>} ELSE {<<0, 0>>}

StaticsInit ==
  /\ self_type = "Abrams" /\ score = 0 /\ bot = FALSE /\ moderator = FALSE
  /\ options = {} /\ query = "none"
  /\ terrain = Island /\ land_based = {"Tree"} /\ entities = <<>>
  /\ arena = [t \in WorldTypes |-> 0]
  /\ CallInit
  /\ StaticsIdle
  /\ OtherIdle

StaticsNext ==
  \/ \E t \in 0..MaxTicks : SpawnStatics(t) /\ UNCHANGED <<policy_vars, other_vars>>
  \/ \E o \in StaticDraws, d \in StaticDirections, f \in RngEighths :
       SpawnStaticAmount(o, d, f) /\ UNCHANGED <<policy_vars, other_vars>>
  \/ NextStatic /\ UNCHANGED <<policy_vars, other_vars>>
  \/ \E t \in ExplicitTypes, o \in ExplicitPositions :
       \E m \in ExplicitMotions(t) : SpawnStatic(t, o, MaxDir, m[1], m[2]) /\ UNCHANGED <<policy_vars, other_vars>>

StaticsSpec == StaticsInit /\ [][StaticsNext]_vars

\* The inserting operations side by side: a call of spawn_here_or_nearby
\* with a positive initial radius on a world built by try_spawn, or
\* background and explicit static spawning from the empty world.
InsertByCall == op = "none" \/ pc # "idle"
InsertByStatics == entities = <<>> \/ op \in {"spawn_static", "spawn_statics"}

InsertNext ==
  \/ \E e \in NearbyEntities, r \in InitialRadii :
       InsertByCall /\ SpawnNearby(e, r) /\ UNCHANGED <<policy_vars, statics_vars, serde_vars, tick_vars, rest_vars>>
  \/ \E o \in gen_radius(radius), d \in Directions :
       InsertByCall /\ Retry(o, d) /\ UNCHANGED <<policy_vars, statics_vars, other_vars>>
  \/ InsertByCall /\ Accept /\ UNCHANGED <<policy_vars, statics_vars, other_vars>>
  \/ InsertByCall /\ Place /\ UNCHANGED <<policy_vars, statics_vars, other_vars>>
  \/ \E t \in 0..MaxTicks :
       InsertByStatics /\ SpawnStatics(t) /\ UNCHANGED <<policy_vars, other_vars>>
  \/ \E o \in StaticDraws, d \in StaticDirections, f \in RngEighths :
       InsertByStatics /\ SpawnStaticAmount(o, d, f) /\ UNCHANGED <<policy_vars, other_vars>>
  \/ InsertByStatics /\ NextStatic /\ UNCHANGED <<policy_vars, other_vars>>
  \/ \E t \in ExplicitTypes, o \in ExplicitPositions :
       \E m \in ExplicitMotions(t) :
         InsertByStatics /\ SpawnStatic(t, o, MaxDir, m[1], m[2]) /\ UNCHANGED <<policy_vars, other_vars>>

InsertSpec == Init /\ [][InsertNext]_vars

(***************************************************************************)
(* World::can_spawn probed on its own: a world built by try_spawn calls,   *)
(* an entity of any kind, in or out of the world, and a threshold.         *)
(***************************************************************************)
ProbePositions ==
  {<<-GridStep, 0>>, <<0, 0>>, <<GridStep, 0>>, <<2 * GridStep, 0>>,
   <<3 * GridStep, 0>>, <<0, GridStep>>}
ProbeWorldPositions == {<<-GridStep, 0>>, <<0, 0>>, <<GridStep, 0>>}
ProbeEntities == {NewEntity(t, p) : t \in ProbeTypes, p \in ProbePositions}
\* 1.0, 1.5, 2.0 and 6.0.
ProbeThresholds == {TScale, (3 * TScale) \div 2, 2 * TScale, 6 * TScale}

\* The worlds that one try_spawn call adds to the worlds W.
Grown(W) ==
  {add(w, NewEntity(t, p)) :
     <<w, t, p>> \in {x \in W \X ProbeWorldTypes \X ProbeWorldPositions :
                        can_spawn(x[1], NewEntity(x[2], x[3]), TScale)}}
ProbeWorlds == {<<>>} \cup Grown({<<>>}) \cup Grown(Grown({<<>>}))

ProbeInit ==
  /\ self_type = "Abrams" /\ score = 0 /\ bot = FALSE /\ moderator = FALSE
  /\ options = {} /\ query = "none"
  /\ terrain = Island
  /\ land_based \in {{"Tree"}, {"Tree", "Tank"}}
  /\ entities \in ProbeWorlds
  /\ arena = [t \in WorldTypes |-> count(entities, t)]
  /\ pc = "idle"
  /\ op = "none"
  /\ entity \in ProbeEntities
  /\ threshold \in ProbeThresholds
  /\ initial_radius = 0
  /\ center = <<0, 0>>
  /\ radius = 0
  /\ governor = 0
  /\ spawned = FALSE
  /\ pre = entities
  /\ attempts = 0
  /\ StaticsIdle
  /\ OtherIdle

\* World::can_spawn(entity, threshold), called on its own.
CanSpawn ==
  /\ pc = "idle"
  /\ ~invalid_threshold(threshold)
  /\ spawned' = can_spawn(entities, entity, threshold)
  /\ op' = "can_spawn"
  /\ pre' = entities
  /\ pc' = "returned"
  /\ UNCHANGED <<entity, initial_radius, center, radius, threshold, governor,
                 attempts, world_vars>>

ProbeNext ==
  \/ CanSpawn /\ UNCHANGED <<policy_vars, statics_vars, other_vars>>
  \/ TrySpawn(entity) /\ UNCHANGED <<policy_vars, statics_vars, other_vars>>

ProbeSpec == ProbeInit /\ [][ProbeNext]_vars

\* Background spawning alone: spawn_statics(Ticks::ONE) once per tick, from an
\* empty world.  The server keeps ticking, and a crate drawn at a position
\* where it fits keeps coming up.
RefillNext ==
  \/ SpawnStatics(1) /\ UNCHANGED <<policy_vars, other_vars>>
  \/ \E o \in StaticDraws, d \in Directions, f \in RngEighths :
       SpawnStaticAmount(o, d, f) /\ UNCHANGED <<policy_vars, other_vars>>
  \/ NextStatic /\ UNCHANGED <<policy_vars, other_vars>>

CrateLands ==
  /\ static_type = "Crate"
  /\ \E o \in StaticDraws, d \in Directions, f \in RngEighths :
       SpawnStaticAmount(o, d, f) /\ UNCHANGED <<policy_vars, other_vars>>
  /\ arena'["Crate"] > arena["Crate"]

RefillSpec ==
  /\ StaticsInit
  /\ [][RefillNext]_vars
  /\ WF_vars(RefillNext)
  /\ SF_vars(CrateLands)


(***************************************************************************)
(* Wire encoding of EntityType: impl Serialize and impl Deserialize.       *)
(***************************************************************************)
None == [some |-> FALSE]
Some(t) == [some |-> TRUE, value |-> t]
Ok(t) == [ok |-> TRUE, value |-> t]
Err(message, what) == [ok |-> FALSE, error |-> <<message, what>>]

\* *self as u8: the ordinal of the variant in the enum, in a byte.
as_u8(t) == ((CHOOSE i \in DOMAIN VARIANTS : VARIANTS[i] = t) - 1) % 256
\* EntityType::from_u8 and EntityType::as_str, EntityType::from_str, through
\* the table of the variants.
from_u8(i) == IF i + 1 \in DOMAIN VARIANTS THEN Some(VARIANTS[i + 1]) ELSE None
as_str(t) == CATALOG[as_u8(t) + 1][1]
from_str(str) ==
  IF \E i \in DOMAIN CATALOG : CATALOG[i][1] = str
  THEN Some(VARIANTS[CHOOSE i \in DOMAIN CATALOG : CATALOG[i][1] = str])
  ELSE None

U8(i) == [form |-> "u8", byte |-> i]
Str(str) == [form |-> "str", str |-> str]

\* Variant: the ordinal is written counting from one.
serialize_from_one(t, readable) ==
  IF readable THEN {Str(as_str(t))} ELSE {U8((as_u8(t) + 1) % 256)}

\* Serialize::serialize: the values the serializer may be handed.  In a
\* build with debug assertions a failed round trip of the ordinal panics.
serialize(t, readable) ==
  IF readable THEN {Str(as_str(t))}
  ELSE IF from_u8(as_u8(t)) = Some(t) THEN {U8(as_u8(t))}
  ELSE {U8(as_u8(t)), Panicked}

\* Variant: an unknown input falls back to the first variant.
deserialize_with_default(w, readable) ==
  IF readable
  THEN LET r == from_str(w.str)
       IN  IF r.some THEN Ok(r.value) ELSE Ok(VARIANTS[1])
  ELSE LET r == from_u8(w.byte)
       IN  IF r.some THEN Ok(r.value) ELSE Ok(VARIANTS[1])

\* Deserialize::deserialize of a value of the form the deserializer asks for.
deserialize(w, readable) ==
  IF readable
  THEN LET r == from_str(w.str)
       IN  IF r.some THEN Ok(r.value) ELSE Err("invalid entity type", w.str)
  ELSE LET r == from_u8(w.byte)
       IN  IF r.some THEN Ok(r.value) ELSE Err("invalid entity type integer", w.byte)

\* Values a deserializer may receive from elsewhere: any byte, and strings
\* that are or are not names.
Bytes == 0..255
ReceivedStrings == {"Abrams", "Yj18", "NoSuchShip", "abrams", ""}
Received(readable) ==
  IF readable THEN {Str(str) : str \in ReceivedStrings} ELSE {U8(i) : i \in Bytes}

SerdeInit ==
  /\ score = 0 /\ bot = FALSE /\ moderator = FALSE
  /\ options = {} /\ query = "none"
  /\ terrain = Island /\ land_based = {"Tree"} /\ entities = <<>>
  /\ arena = [t \in WorldTypes |-> 0]
  /\ CallInit
  /\ StaticsIdle
  /\ RestIdle
  /\ argument = NewEntity("Crate", <<0, 0>>)
  /\ counter = 0 /\ tick_pc = "idle" /\ calls = <<>>
  /\ human_readable \in BOOLEAN
  /\ decoded = Undecoded
  /\ \/ self_type \in EntityType /\ wire = Unwritten
     \/ self_type = VARIANTS[1] /\ wire \in Received(human_readable)

Serialize ==
  /\ wire = Unwritten
  /\ wire' \in serialize(self_type, human_readable)
  /\ UNCHANGED <<human_readable, decoded>>

Deserialize ==
  /\ wire \notin {Unwritten, Panicked}
  /\ decoded = Undecoded
  /\ decoded' = deserialize(wire, human_readable)
  /\ UNCHANGED <<human_readable, wire>>

SerdeNext ==
  \/ Serialize /\ UNCHANGED <<policy_vars, world_vars, call_vars, statics_vars,
                              argument, tick_vars, rest_vars>>
  \/ Deserialize /\ UNCHANGED <<policy_vars, world_vars, call_vars, statics_vars,
                                argument, tick_vars, rest_vars>>

SerdeSpec == SerdeInit /\ [][SerdeNext]_vars

(***************************************************************************)
(* ContextService::update, call by call.                                   *)
(***************************************************************************)
\* Ticks per second (common_util::ticks), and Ticks::from_secs.
FREQUENCY_HZ == 10
from_secs(secs) == secs * FREQUENCY_HZ

\* The call named by tick_pc is made, and control moves on.
Call(name, next) ==
  /\ tick_pc = name
  /\ calls' = Append(calls, name)
  /\ tick_pc' = next

Update ==
  /\ tick_pc = "idle"
  /\ counter < MaxCounter
  /\ calls' = <<>>
  /\ tick_pc' = "count_tick"
  /\ UNCHANGED counter

\* Context::count_tick advances the counter.
CountTick == Call("count_tick", "clients.prune") /\ counter' = counter + 1
ClientsPrune == Call("clients.prune", "bots.update_count") /\ UNCHANGED counter
BotsUpdateCount ==
  Call("bots.update_count", "service.update(Ticks::ONE)") /\ UNCHANGED counter
ServiceUpdate ==
  /\ Call("service.update(Ticks::ONE)", "players.update_is_alive_and_team_id")
  /\ UNCHANGED counter
PlayersUpdate ==
  /\ Call("players.update_is_alive_and_team_id", "clients.update")
  /\ UNCHANGED counter
ClientsUpdate == Call("clients.update", "bots.update") /\ UNCHANGED counter

\* Variant: the leaderboard is not fed.
BotsUpdate_then_post_update ==
  Call("bots.update", "service.post_update") /\ UNCHANGED counter

BotsUpdate == Call("bots.update", "leaderboard.process") /\ UNCHANGED counter
LeaderboardProcess ==
  Call("leaderboard.process", "service.post_update") /\ UNCHANGED counter
PostUpdate == Call("service.post_update", "benchmark") /\ UNCHANGED counter

\* The benchmark timers are reported and reset every five seconds.
BenchmarkFlush ==
  /\ tick_pc = "benchmark"
  /\ counter % from_secs(5) = 0
  /\ calls' = calls \o <<"benchmark.borrow_all", "benchmark.reset_all">>
  /\ tick_pc' = "idle"
  /\ UNCHANGED counter

Return ==
  /\ tick_pc = "benchmark"
  /\ counter % from_secs(5) # 0
  /\ tick_pc' = "idle"
  /\ UNCHANGED <<counter, calls>>

TickInit ==
  /\ self_type = "Abrams" /\ score = 0 /\ bot = FALSE /\ moderator = FALSE
  /\ options = {} /\ query = "none"
  /\ terrain = Island /\ land_based = {"Tree"} /\ entities = <<>>
  /\ arena = [t \in WorldTypes |-> 0]
  /\ CallInit
  /\ StaticsIdle
  /\ OtherIdle

TickFrame == UNCHANGED <<policy_vars, world_vars, call_vars, statics_vars,
                         argument, serde_vars, rest_vars>>

TickNext ==
  \/ Update /\ TickFrame
  \/ CountTick /\ TickFrame
  \/ ClientsPrune /\ TickFrame
  \/ BotsUpdateCount /\ TickFrame
  \/ ServiceUpdate /\ TickFrame
  \/ PlayersUpdate /\ TickFrame
  \/ ClientsUpdate /\ TickFrame
  \/ BotsUpdate /\ TickFrame
  \/ LeaderboardProcess /\ TickFrame
  \/ PostUpdate /\ TickFrame
  \/ BenchmarkFlush /\ TickFrame
  \/ Return /\ TickFrame

TickSpec == TickInit /\ [][TickNext]_vars

(***************************************************************************)
(* EntityType::loot: the call, and the iterator it returns, item by item.  *)
(***************************************************************************)
\* common::util::natural_death_coins.  Only that it is monotone and
\* saturating is documented; this instance gives a coin per 40 points, at
\* most 3.
natural_death_coins(s) == Min(s \div 40, 3)

\* rng.gen::<f32>() samples the eighths of [0, 1).
LootRng == {0, 7}
\* Boats whose loot is modelled: the boats of sub-kind Pirate and Tanker,
\* Olympias, and three others.
LootTypes ==
  {t \in EntityType : data(t).kind = "Boat" /\ data(t).sub_kind \in {"Pirate", "Tanker"}}
    \cup {"Olympias", "Fletcher", "Abrams", "Komar"}
LootScores == {0, 39, 40, 130}

\* The loot table of a boat, in the order it is pushed.
loot_table_of(t) ==
  IF data(t).sub_kind = "Pirate" THEN <<"Crate", "Coin">>
  ELSE IF data(t).sub_kind = "Tanker" THEN <<"Scrap", "Barrel">>
  ELSE IF t = "Olympias" THEN <<"Crate">>
  ELSE <<"Scrap">>

\* The call: (length * 0.25 * (gen * 0.1 + 0.9)) as u32 pieces, with length
\* in decimetres and gen = eighths / 8.
Loot(eighths) ==
  /\ loot_pc = "idle"
  /\ coin_amount' = IF score_to_coins THEN natural_death_coins(score) ELSE 0
  /\ loot_amount' = (data(self_type).length * (72 + eighths)) \div 3200
  /\ loot_table' = loot_table_of(self_type)
  /\ emitted' = 0
  /\ item' = "none"
  /\ loot_pc' = "iterating"
  /\ UNCHANGED score_to_coins

\* Variant: the picks run on for the length of the whole chain.
LootNextPiece_past_amount(i) ==
  /\ loot_pc = "iterating"
  /\ emitted < loot_amount + coin_amount
  /\ item' = loot_table[i]
  /\ emitted' = emitted + 1
  /\ UNCHANGED <<score_to_coins, coin_amount, loot_amount, loot_table, loot_pc>>

\* Iterator::next while the first half of the chain lasts: a random pick.
LootNextPiece(i) ==
  /\ loot_pc = "iterating"
  /\ emitted < loot_amount
  /\ item' = loot_table[i]
  /\ emitted' = emitted + 1
  /\ UNCHANGED <<score_to_coins, coin_amount, loot_amount, loot_table, loot_pc>>

\* Iterator::next in the second half of the chain: a coin.
LootNextCoin ==
  /\ loot_pc = "iterating"
  /\ emitted >= loot_amount
  /\ emitted < loot_amount + coin_amount
  /\ item' = "Coin"
  /\ emitted' = emitted + 1
  /\ UNCHANGED <<score_to_coins, coin_amount, loot_amount, loot_table, loot_pc>>

\* Iterator::next at the end of the chain: None.
LootExhausted ==
  /\ loot_pc = "iterating"
  /\ emitted >= loot_amount + coin_amount
  /\ loot_pc' = "exhausted"
  /\ UNCHANGED <<score_to_coins, coin_amount, loot_amount, loot_table, emitted, item>>

LootInit ==
  /\ self_type \in LootTypes
  /\ score \in LootScores
  /\ bot = FALSE /\ moderator = FALSE
  /\ options = {} /\ query = "none"
  /\ terrain = Island /\ land_based = {"Tree"} /\ entities = <<>>
  /\ arena = [t \in WorldTypes |-> 0]
  /\ CallInit
  /\ StaticsIdle
  /\ argument = NewEntity("Crate", <<0, 0>>)
  /\ human_readable = FALSE /\ wire = Unwritten /\ decoded = Undecoded
  /\ counter = 0 /\ tick_pc = "idle" /\ calls = <<>>
  /\ score_to_coins \in BOOLEAN
  /\ coin_amount = 0 /\ loot_amount = 0
  /\ loot_table = <<>> /\ loot_pc = "idle" /\ emitted = 0 /\ item = "none"
  /\ PlayerIdle
  /\ SplashIdle

LootFrame == UNCHANGED <<policy_vars, world_vars, call_vars, statics_vars,
                         argument, serde_vars, tick_vars, player_vars, splash_vars>>

LootNext ==
  \/ \E eighths \in LootRng : Loot(eighths) /\ LootFrame
  \/ \E i \in DOMAIN loot_table : LootNextPiece(i) /\ LootFrame
  \/ LootNextCoin /\ LootFrame
  \/ LootExhausted /\ LootFrame

LootSpec == LootInit /\ [][LootNext]_vars

(***************************************************************************)
(* A player's boat over a life: a spawn permitted by can_spawn_as, then    *)
(* upgrades permitted by can_upgrade_to, while the score only grows.       *)
(***************************************************************************)
PlayerSpawn(t) ==
  /\ ~alive
  /\ can_spawn_as(t, score, bot, moderator)
  /\ self_type' = t
  /\ alive' = TRUE
  /\ UNCHANGED <<score, bot, moderator, options, query>>

PlayerUpgrade(t) ==
  /\ alive
  /\ can_upgrade_to(self_type, t, score, bot, moderator)
  /\ self_type' = t
  /\ UNCHANGED <<score, bot, moderator, options, query, alive>>

Earn(s) ==
  /\ alive
  /\ s > score
  /\ score' = s
  /\ UNCHANGED <<self_type, bot, moderator, options, query, alive>>

PlayerInit ==
  /\ self_type = VARIANTS[1]
  /\ score \in Scores
  /\ bot \in BOOLEAN
  /\ moderator \in BOOLEAN
  /\ options = {} /\ query = "none"
  /\ terrain = Island /\ land_based = {"Tree"} /\ entities = <<>>
  /\ arena = [t \in WorldTypes |-> 0]
  /\ CallInit
  /\ StaticsIdle
  /\ OtherIdle

PlayerFrame == UNCHANGED <<world_vars, call_vars, statics_vars, argument,
                           serde_vars, tick_vars, loot_vars, splash_vars>>

PlayerNext ==
  \/ \E t \in EntityType : PlayerSpawn(t) /\ PlayerFrame
  \/ \E t \in EntityType : PlayerUpgrade(t) /\ PlayerFrame
  \/ \E s \in Scores : Earn(s) /\ PlayerFrame

PlayerSpec == PlayerInit /\ [][PlayerNext]_vars

(***************************************************************************)
(* The spawn overlay's splash screen: the use_splash_screen hook of a      *)
(* mounted SpawnOverlay, its effect, its window listener and its timer.    *)
(***************************************************************************)
\* The dependency of the effect, as the effect last saw it.
Dep(b) == IF b THEN "true" ELSE "false"

\* First render: paused = false, transitioning = true, and the fade-in
\* animation of the form starts.
Mount ==
  /\ splash_pc \in {"unmounted", "gone"}
  /\ Len(posted) < MaxPosted
  /\ splash_pc' = "mounted"
  /\ paused' = FALSE
  /\ transitioning' = TRUE
  /\ animation' = "running"
  /\ transitioning_dep' = "none"
  /\ UNCHANGED <<listener, timeout, posted>>

\* Variant: the timer is kept while the overlay is transitioning.
RunEffect_timer_while_transitioning ==
  /\ splash_pc = "mounted"
  /\ transitioning_dep # Dep(transitioning)
  /\ listener' = IF transitioning THEN "transitioning" ELSE "not_transitioning"
  /\ timeout' = IF transitioning THEN "armed" ELSE "none"
  /\ transitioning_dep' = Dep(transitioning)
  /\ UNCHANGED <<splash_pc, transitioning, paused, animation, posted>>

\* The effect of use_effect_with_deps, run after a render in which
\* transitioning differs from what the effect last saw: the previous
\* listener and timer are dropped, a listener is installed, and the new
\* Timeout is kept only when not_transitioning (otherwise it is dropped at
\* once, which cancels it).
RunEffect ==
  /\ splash_pc = "mounted"
  /\ transitioning_dep # Dep(transitioning)
  /\ listener' = IF transitioning THEN "transitioning" ELSE "not_transitioning"
  /\ timeout' = IF ~transitioning THEN "armed" ELSE "none"
  /\ transitioning_dep' = Dep(transitioning)
  /\ UNCHANGED <<splash_pc, transitioning, paused, animation, posted>>

\* The animationend event of the form: the callback is attached only while
\* transitioning.
AnimationEnd ==
  /\ splash_pc = "mounted"
  /\ animation = "running"
  /\ animation' = "ended"
  /\ IF transitioning
     THEN /\ Len(posted) < MaxPosted
          /\ posted' = Append(posted, "splash")
          /\ transitioning' = FALSE
     ELSE UNCHANGED <<posted, transitioning>>
  /\ UNCHANGED <<splash_pc, paused, transitioning_dep, listener, timeout>>

\* A message event on the window, handled by the installed listener.
Message(m) ==
  /\ splash_pc = "mounted"
  /\ listener # "none"
  /\ paused' = IF m = "pause" THEN TRUE ELSE IF m = "unpause" THEN FALSE ELSE paused
  /\ IF m = "snippetLoaded" /\ listener = "not_transitioning"
     THEN /\ Len(posted) < MaxPosted
          /\ posted' = Append(posted, "splash")
     ELSE UNCHANGED posted
  /\ UNCHANGED <<splash_pc, transitioning, transitioning_dep, listener, timeout,
                 animation>>

\* The 1500 ms timer fires.
TimeoutFires ==
  /\ splash_pc = "mounted"
  /\ timeout = "armed"
  /\ timeout' = "fired"
  /\ transitioning' = FALSE
  /\ UNCHANGED <<splash_pc, paused, transitioning_dep, listener, animation, posted>>

\* The overlay is unmounted: the effects' destructors drop the listener and
\* the timer, and post "playing".
Unmount ==
  /\ splash_pc = "mounted"
  /\ Len(posted) < MaxPosted
  /\ splash_pc' = "gone"
  /\ listener' = "none"
  /\ timeout' = "none"
  /\ animation' = "none"
  /\ posted' = Append(posted, "playing")
  /\ UNCHANGED <<transitioning, paused, transitioning_dep>>

SplashInit ==
  /\ self_type = "Abrams" /\ score = 0 /\ bot = FALSE /\ moderator = FALSE
  /\ options = {} /\ query = "none"
  /\ terrain = Island /\ land_based = {"Tree"} /\ entities = <<>>
  /\ arena = [t \in WorldTypes |-> 0]
  /\ CallInit
  /\ StaticsIdle
  /\ OtherIdle

SplashFrame == UNCHANGED <<policy_vars, world_vars, call_vars, statics_vars,
                           argument, serde_vars, tick_vars, loot_vars, player_vars>>

SplashNext ==
  \/ Mount /\ SplashFrame
  \/ RunEffect /\ SplashFrame
  \/ AnimationEnd /\ SplashFrame
  \/ \E m \in {"pause", "unpause", "snippetLoaded"} : Message(m) /\ SplashFrame
  \/ TimeoutFires /\ SplashFrame
  \/ Unmount /\ SplashFrame

\* The scheduler runs a pending effect and an armed timer fires; nothing
\* makes the animation end, a message arrive or the overlay go away.
SplashSpec ==
  /\ SplashInit
  /\ [][SplashNext]_vars
  /\ WF_vars(RunEffect /\ SplashFrame)
  /\ WF_vars(TimeoutFires /\ SplashFrame)

(***************************************************************************)
(* Properties of the spawn subsystem (checked under Spec).                 *)
(***************************************************************************)
Counts(es) == [t \in WorldTypes |-> count(es, t)]
Returned(name) == pc = "returned" /\ op = name
NearbyReturned == Returned("spawn_here_or_nearby") /\ initial_radius > 0
\* es is es0 with exactly the entity e added at the end.
AddedAtEnd(es, es0, e) == es = Append(es0, e)

\* C1: try_spawn(entity) inserts the entity and returns true exactly when
\* can_spawn(entity, 1.0) holds in the world it is called on; otherwise it
\* returns false and leaves the entities, the per-type counts and the
\* terrain as they were.
C1_TrySpawnContract ==
  Returned("try_spawn") =>
    /\ spawned = can_spawn(pre, entity, TScale)
    /\ spawned => AddedAtEnd(entities, pre, entity)
    /\ ~spawned => entities = pre
    /\ arena = Counts(entities)
    /\ terrain = Island

C1_Witness ==
  /\ Returned("try_spawn")
  /\ spawned
  /\ Len(pre) = 1
  /\ Len(entities) = 2

\* C2: when spawn_here_or_nearby(e, r) with r > 0 returns true, the entity was
\* inserted at a position and direction for which can_spawn(e, 1.0) held in
\* the world as it was just before the insertion.
C2_AcceptedSlotSpawnable ==
  (NearbyReturned /\ spawned) =>
    /\ AddedAtEnd(entities, pre, entity)
    /\ can_spawn(pre, entities[Len(entities)], TScale)

C2_Witness ==
  /\ NearbyReturned
  /\ spawned
  /\ attempts > 1
  /\ Len(pre) = 1

Exhausted == NearbyReturned /\ governor = 0

\* C3 as stated: when spawn_here_or_nearby(e, r) with r > 0 uses up its governor
\* and its last candidate does not pass can_spawn at the loop threshold either,
\* it returns false and inserts nothing.
C3_ExhaustedReturnsFalse ==
  (Exhausted /\ ~can_spawn(pre, entity, threshold)) =>
    (~spawned /\ entities = pre)

\* C3, amended: when the governor is used up, the call returns what a last
\* try_spawn of the last drawn candidate returns: true with the candidate
\* inserted when it passes can_spawn(1.0), false with nothing inserted
\* otherwise.
C3_ExhaustedTriesLastCandidate ==
  Exhausted =>
    /\ attempts = (IF is_boat(entity) THEN 128 ELSE 8)
    /\ spawned = can_spawn(pre, entity, TScale)
    /\ spawned => AddedAtEnd(entities, pre, entity)
    /\ ~spawned => entities = pre

C3_Witness ==
  /\ Exhausted
  /\ spawned
  /\ ~can_spawn(pre, entity, threshold)

\* C4: spawn_here_or_nearby with initial_radius > 0 makes at most 128 placement
\* attempts for a boat and at most 8 for any other kind, and the governor
\* never goes below zero (while the loop runs it is at least one).
C4_GovernorBounds ==
  (op = "spawn_here_or_nearby" /\ initial_radius > 0) =>
    /\ attempts <= (IF is_boat(entity) THEN 128 ELSE 8)
    /\ governor >= 0
    /\ pc = "loop" => governor >= 1

C4_Witness ==
  /\ NearbyReturned
  /\ attempts = 128
  /\ governor = 0

\* C5: during a spawn_here_or_nearby call the entities of the world stay as
\* they were throughout the retry loop; the call adds at most one entity, at
\* the end, and never changes or removes an entity that was there, whether it
\* returns true or false.
C5_WorldFrame ==
  (op = "spawn_here_or_nearby") =>
    /\ pc \in {"loop", "placed"} => (entities = pre /\ arena = Counts(pre))
    /\ pc = "returned" =>
         /\ entities = pre \/ AddedAtEnd(entities, pre, entity)
         /\ spawned <=> entities # pre
         /\ arena = Counts(entities)

C5_Witness ==
  /\ op = "spawn_here_or_nearby"
  /\ pc = "loop"
  /\ attempts >= 2
  /\ Len(pre) = 1
  /\ entity.position # center

\* min(r * 1.1^k, world_radius * 0.85), in LScale units.
RECURSIVE ClaimedBound(_, _)
ClaimedBound(r, k) ==
  IF k = 0 THEN Min(r * LScale, (WorldRadius * LScale * 85) \div 100)
  ELSE Min((ClaimedBound(r, k - 1) * 11) \div 10, (WorldRadius * LScale * 85) \div 100)

\* The search radius in force at the k-th draw (k >= 1), in LScale units:
\* max(r, 1 m) at the first, then min(1.1 * previous, world_radius * 0.85).
RECURSIVE DrawRadius(_, _)
DrawRadius(r, k) ==
  IF k <= 1 THEN Max(r * LScale, 10 * LScale)
  ELSE Min((DrawRadius(r, k - 1) * 11) \div 10, (WorldRadius * LScale * 85) \div 100)

\* C6 as stated: when spawn_here_or_nearby(e, r) with r > 0 returns true after
\* k attempts, the inserted entity is at most min(r * 1.1^k, world_radius *
\* 0.85) away from the original centre, for every r > 0.
C6_DistanceWithinClaimedBound ==
  (NearbyReturned /\ spawned) =>
    WithinSq(distance_squared(entity.position, center),
             ClaimedBound(initial_radius, attempts) \div LScale)

\* C6, amended: the inserted entity is at most as far from the original centre
\* as the search radius in force when it was drawn: max(r, 1) at the first
\* attempt, min(1.1 * previous, world_radius * 0.85) at each later one.
C6_DistanceWithinDrawRadius ==
  (NearbyReturned /\ spawned) =>
    WithinSq(distance_squared(entity.position, center),
             DrawRadius(initial_radius, attempts) \div LScale)

C6_Witness ==
  /\ NearbyReturned
  /\ spawned
  /\ attempts >= 2
  /\ entity.position # center

(***************************************************************************)
(* Properties of the spawn / upgrade policy (checked under PolicySpec).    *)
(***************************************************************************)
level(t) == data(t).level

\* C7 as stated: for a non-moderator, can_upgrade_to(a, b, score, bot, false)
\* implies level(b) >= level(a), for all types a and b, every score and either
\* bot value.
C7_UpgradeNeverLowersLevel ==
  ~moderator =>
    \A b \in EntityType :
      can_upgrade_to(self_type, b, score, bot, moderator) => level(b) >= level(self_type)

\* C7, amended: for a non-moderator, can_upgrade_to(a, b, score, bot, false)
\* implies level(b) >= level(a) unless a has sub-kind Tank and b has sub-kind
\* LandingShip (the cross-grade rule, which does not look at levels).
C7_UpgradeLowersLevelOnlyTankToLandingShip ==
  ~moderator =>
    \A b \in EntityType :
      (/\ can_upgrade_to(self_type, b, score, bot, moderator)
       /\ ~(data(self_type).sub_kind = "Tank" /\ data(b).sub_kind = "LandingShip"))
      => level(b) >= level(self_type)

C7_Witness ==
  /\ ~moderator
  /\ query = "upgrade_options"
  /\ self_type = "Fletcher"
  /\ "ArleighBurke" \in options

\* C8: for a non-moderator, non-bot player, can_upgrade_to(Lst, Sherman, score,
\* false, false) is true exactly when level_to_score(4) <= score <
\* level_to_score(6); so it is false at level_to_score(3) and at
\* level_to_score(6).
C8_LstShermanWindow ==
  (self_type = "Lst" /\ ~bot /\ ~moderator) =>
    /\ can_upgrade_to(self_type, "Sherman", score, bot, moderator)
         <=> (level_to_score(4) <= score /\ score < level_to_score(6))
    /\ score \in {level_to_score(3), level_to_score(6)}
         => ~can_upgrade_to(self_type, "Sherman", score, bot, moderator)
    /\ query = "upgrade_options" =>
         ("Sherman" \in options
            <=> (level_to_score(4) <= score /\ score < level_to_score(6)))

C8_Witness ==
  /\ self_type = "Lst" /\ ~bot /\ ~moderator
  /\ score = level_to_score(4)
  /\ query = "upgrade_options"
  /\ "Sherman" \in options

\* C9: can_spawn_as(t, score, bot, moderator) equals (t.kind = Boat and
\* level_to_score(t.level) <= score and (bot or not t.npc)) and, when t has
\* sub-kind Drone, additionally (moderator and not bot); a Drone-sub-kind type
\* is never spawnable by a non-moderator or by a bot.
C9_CanSpawnAsRule ==
  LET d == data(self_type)
      base == /\ d.kind = "Boat"
              /\ level_to_score(d.level) <= score
              /\ (bot \/ ~d.npc)
  IN  /\ can_spawn_as(self_type, score, bot, moderator)
           <=> (base /\ (d.sub_kind = "Drone" => (moderator /\ ~bot)))
      /\ (d.sub_kind = "Drone" /\ (~moderator \/ bot))
           => ~can_spawn_as(self_type, score, bot, moderator)
      /\ query = "spawn_options" =>
           (self_type \in options <=> can_spawn_as(self_type, score, bot, moderator))

C9_Witness ==
  /\ self_type = "Drone"
  /\ moderator /\ ~bot
  /\ query = "spawn_options"
  /\ "Drone" \in options
  /\ "Uap" \in options

\* C10: can_spawn_as(t, score, bot, moderator) = true implies t.kind = Boat,
\* so spawn_options never yields a type that is not a boat.
C10_SpawnableIsBoat ==
  /\ can_spawn_as(self_type, score, bot, moderator) => data(self_type).kind = "Boat"
  /\ query = "spawn_options" => \A t \in options : data(t).kind = "Boat"

C10_Witness ==
  /\ query = "spawn_options"
  /\ options # {}
  /\ data(self_type).kind # "Boat"

\* C11: for a moderator, can_upgrade_to(from, to, score, bot, true) is true
\* for every pair of types of the same kind, whatever the score, the level
\* ordering, the npc flag, the bot flag, the Drone sub-kind or the
\* Chinook/Lst bot restriction; upgrade_options then yields them all.
C11_ModeratorSameKind ==
  moderator =>
    \A b \in EntityType :
      data(b).kind = data(self_type).kind =>
        /\ can_upgrade_to(self_type, b, score, bot, moderator)
        /\ query = "upgrade_options" => b \in options

C11_Witness ==
  /\ moderator /\ bot
  /\ self_type = "Abrams"
  /\ score = 0
  /\ query = "upgrade_options"
  /\ {"Drone", "Chinook", "Lst", "Olympias", "Abrams"} \subseteq options

\* C12: for a bot that is not a moderator, can_upgrade_to(from, Chinook, ..)
\* and can_upgrade_to(from, Lst, ..) are false for every from type and every
\* score, from types of sub-kind Tank included.
C12_BotNeverChinookOrLst ==
  (bot /\ ~moderator) =>
    /\ ~can_upgrade_to(self_type, "Chinook", score, bot, moderator)
    /\ ~can_upgrade_to(self_type, "Lst", score, bot, moderator)
    /\ query = "upgrade_options" => options \cap {"Chinook", "Lst"} = {}

C12_Witness ==
  /\ bot /\ ~moderator
  /\ data(self_type).sub_kind = "Tank"
  /\ score >= level_to_score(MAX_BOAT_LEVEL)
  /\ query = "upgrade_options"
  /\ options # {}
  /\ options \cap {"Chinook", "Lst"} = {}

\* C13: for a non-moderator, can_upgrade_to(from, to, score, bot, false) is
\* false for every from type, every score and either bot value whenever to
\* has sub-kind Drone.
C13_DroneNeedsModerator ==
  ~moderator =>
    \A b \in EntityType :
      data(b).sub_kind = "Drone" =>
        /\ ~can_upgrade_to(self_type, b, score, bot, moderator)
        /\ query = "upgrade_options" => b \notin options

C13_Witness ==
  /\ ~moderator /\ bot
  /\ data(self_type).kind = "Boat"
  /\ query = "upgrade_options"
  /\ options # {}
  /\ \A b \in options : data(b).sub_kind # "Drone"

\* C14: for a player who is neither moderator nor bot, and every score (0
\* included), can_upgrade_to is true for every transition from a Tank type to
\* a LandingShip type and from a LandingShip type to a Tank type, except
\* Lst -> Sherman, which the score window decides.
C14_CrossGradeAlwaysAllowed ==
  (~moderator /\ ~bot) =>
    \A b \in EntityType :
      (/\ \/ data(self_type).sub_kind = "Tank" /\ data(b).sub_kind = "LandingShip"
          \/ data(self_type).sub_kind = "LandingShip" /\ data(b).sub_kind = "Tank"
       /\ ~(self_type = "Lst" /\ b = "Sherman"))
      => /\ can_upgrade_to(self_type, b, score, bot, moderator)
         /\ query = "upgrade_options" => b \in options

C14_Witness ==
  /\ ~moderator /\ ~bot
  /\ self_type = "Lst"
  /\ score = 0
  /\ query = "upgrade_options"
  /\ "Abrams" \in options
  /\ "Sherman" \notin options

\* The special rules of can_upgrade_to, none of which applies to (a, b).
NoSpecialRule(a, b) ==
  /\ ~moderator
  /\ data(b).sub_kind # "Drone"
  /\ ~(bot /\ b \in {"Chinook", "Lst"})
  /\ ~(a = "Lst" /\ b = "Sherman")
  /\ ~(data(a).sub_kind = "Tank" /\ data(b).sub_kind = "LandingShip")
  /\ ~(data(a).sub_kind = "LandingShip" /\ data(b).sub_kind = "Tank")

\* C15: when no special rule applies, can_upgrade_to(from, to, score, bot,
\* false) equals to.level > from.level and to.kind = from.kind and
\* score >= level_to_score(to.level) and (bot or not to.npc); Fletcher ->
\* ArleighBurke is true at level_to_score(5) and false one point below.
C15_GenericRule ==
  /\ \A b \in EntityType :
       NoSpecialRule(self_type, b) =>
         (can_upgrade_to(self_type, b, score, bot, moderator)
            <=> /\ data(b).level > data(self_type).level
                /\ data(b).kind = data(self_type).kind
                /\ score >= level_to_score(data(b).level)
                /\ (bot \/ ~data(b).npc))
  /\ (self_type = "Fletcher" /\ ~bot /\ ~moderator) =>
       /\ score = level_to_score(5) =>
            can_upgrade_to(self_type, "ArleighBurke", score, bot, moderator)
       /\ score = level_to_score(5) - 1 =>
            ~can_upgrade_to(self_type, "ArleighBurke", score, bot, moderator)

C15_Witness ==
  /\ self_type = "Fletcher" /\ ~bot /\ ~moderator
  /\ score = level_to_score(5)
  /\ query = "upgrade_options"
  /\ "ArleighBurke" \in options
  /\ \A b \in options : level(b) = 5

\* C16: upgrade_options(self, score, bot, moderator) yields exactly the types
\* t with can_upgrade_to(self, t, score, bot, moderator): when the early-out
\* is taken (score < level_to_score(self.level), not Tank or LandingShip, not
\* moderator) no type satisfies can_upgrade_to.
C16_UpgradeOptionsIsFilter ==
  query = "upgrade_options" =>
    options = {t \in EntityType : can_upgrade_to(self_type, t, score, bot, moderator)}

EarlyOut ==
  /\ score < level_to_score(data(self_type).level)
  /\ data(self_type).sub_kind \notin {"Tank", "LandingShip"}
  /\ ~moderator

C16_Witness ==
  /\ query = "upgrade_options"
  /\ EarlyOut
  /\ options = {}
  /\ \E t \in EntityType :
       /\ data(t).kind = data(self_type).kind
       /\ data(t).level > data(self_type).level

(***************************************************************************)
(* Properties of can_spawn and of the background spawning (checked under   *)
(* Spec).                                                                  *)
(***************************************************************************)
\* Thresholds at which can_spawn is compared: 1.0, 2.0, 6.0 and the one the
\* retry loop has reached.
Thresholds == {TScale, 2 * TScale, 6 * TScale, Max(threshold, TScale)}

\* C17: can_spawn is monotone in its threshold: for every world, every entity
\* (of any kind, land-based or water-based) and all thresholds
\* 1 <= t1 <= t2, can_spawn(e, t2) implies can_spawn(e, t1).
C17_CanSpawnMonotone ==
  op # "none" =>
    \A t1 \in Thresholds, t2 \in Thresholds :
      (t1 <= t2 /\ can_spawn(pre, entity, t2)) => can_spawn(pre, entity, t1)

\* The state after a spawn_statics call has returned, and bookkeeping of the
\* call: the types it refills, their targets, budgets and counts on entry.
StaticsReturned == pc = "idle" /\ op = "spawn_statics"
Refilled == {"Crate", "OilPlatform", "Acacia"}
Target(t) ==
  IF t = "Crate" THEN target_count(CRATE_DENSITY)
  ELSE IF t = "OilPlatform" THEN target_count(OBSTACLE_DENSITY)
  ELSE target_count(VEGETATION_DENSITY)
Rate(t) == IF t = "Crate" THEN 150 ELSE IF t = "OilPlatform" THEN 2 ELSE 1
Current(t) ==
  IF t = "OilPlatform" THEN count(pre, "OilPlatform") + count(pre, "Hq")
  ELSE count(pre, t)
AddedOf(t) == count(entities, t) - count(pre, t)

\* C18: a spawn_statics(ticks) call never removes an entity and, for each of
\* Crate (budget 150 * ticks), OilPlatform (budget 2 * ticks, current =
\* count(OilPlatform) + count(Hq)) and Acacia (budget ticks), adds at most
\* min(target - current, budget) entities of that type, none when current >=
\* target; a count at or below its target before the call is at or below it
\* after, and from an empty world one tick yields at most 150 crates.
C18_StaticsAddsWithinBudget ==
  op = "spawn_statics" =>
    /\ Len(entities) >= Len(pre)
    /\ SubSeq(entities, 1, Len(pre)) = pre
    /\ \A t \in Refilled :
         /\ AddedOf(t) <= Min(saturating_sub(Target(t), Current(t)), Rate(t) * ticks)
         /\ Current(t) >= Target(t) => AddedOf(t) = 0
         /\ count(pre, t) <= Target(t) => count(entities, t) <= Target(t)
    /\ (pre = <<>> /\ ticks = 1) => count(entities, "Crate") <= 150

C18_Witness ==
  /\ StaticsReturned
  /\ ticks = 1
  /\ count(pre, "Hq") = 1
  /\ count(pre, "Crate") = 1
  /\ count(entities, "Crate") = 2
  /\ count(entities, "OilPlatform") = 0
  /\ AddedOf("Acacia") = 1

\* C19 as stated: after any spawn_statics(ticks) call, in any reachable world
\* (other operations may have added entities of the same type),
\* arena.count(T) <= target_count(density(T)) + rate(T) * ticks for T in
\* {Crate, OilPlatform, Acacia}.
C19_CountWithinTargetPlusBudget ==
  StaticsReturned =>
    \A t \in Refilled : arena[t] <= Target(t) + Rate(t) * ticks

\* C19, amended: after a spawn_statics call the count of each refilled type
\* is at most the larger of its count before the call and its target: the
\* call never lifts a count above the target, and never lowers one.
C19_CountWithinTargetOrBefore ==
  StaticsReturned =>
    \A t \in Refilled :
      /\ arena[t] <= Max(count(pre, t), Target(t))
      /\ arena[t] >= count(pre, t)
      /\ arena[t] = count(entities, t)

C19_Witness ==
  /\ StaticsReturned
  /\ ticks = 1
  /\ count(pre, "Acacia") > Target("Acacia") + Rate("Acacia") * ticks
  /\ arena["Acacia"] = count(pre, "Acacia")
  /\ arena["Crate"] > count(pre, "Crate")

\* C20: from an empty world, with spawn_statics(Ticks::ONE) called once per
\* tick, count(Crate) eventually reaches target_count(CRATE_DENSITY) (crates
\* keep being drawn at positions where they fit, and none expires), and it
\* never exceeds that target.
C20_CratesReachTarget ==
  /\ <>(arena["Crate"] = target_count(CRATE_DENSITY))
  /\ [](arena["Crate"] <= target_count(CRATE_DENSITY))

C20_Witness ==
  /\ StaticsReturned
  /\ arena["Crate"] = target_count(CRATE_DENSITY)
  /\ count(pre, "Crate") = target_count(CRATE_DENSITY) - 1
  /\ count(pre, "Crate") > 0

(***************************************************************************)
(* Properties of the calls of spawn_here_or_nearby (checked under Spec).   *)
(***************************************************************************)
\* C26: spawn operations never panic: every can_spawn call made by
\* try_spawn, by spawn_here_or_nearby (over all its up to 128 iterations of
\* threshold <- 0.05 + 0.95 * threshold from 6), by spawn_static and by
\* spawn_statics passes a threshold >= 1.0, strictly above 1.0 inside the
\* retry loop, so the 'invalid threshold' assertion is out of reach.
C26_ThresholdNeverInvalid ==
  /\ ~invalid_threshold(TScale)
  /\ pc \in {"loop", "placed"} =>
       /\ ~invalid_threshold(threshold)
       /\ threshold > TScale
       /\ threshold <= 6 * TScale

C26_Witness ==
  /\ pc = "loop"
  /\ attempts = 127
  /\ governor = 1
  /\ threshold > TScale

\* C27: spawn_here_or_nearby(entity, 0) performs exactly one try_spawn of
\* the entity with its position, direction and guidance as given (nothing
\* is drawn, nothing is retried) and returns that result.
C27_ZeroRadiusDelegates ==
  (Returned("spawn_here_or_nearby") /\ initial_radius = 0) =>
    /\ entity = argument
    /\ attempts = 0
    /\ spawned = can_spawn(pre, argument, TScale)
    /\ entities = IF spawned THEN Append(pre, argument) ELSE pre

C27_Witness ==
  /\ Returned("spawn_here_or_nearby")
  /\ initial_radius = 0
  /\ spawned
  /\ argument.direction_target # argument.direction
  /\ pre # <<>>
  /\ entities[Len(entities)] = argument

(***************************************************************************)
(* Properties of can_spawn (checked under ProbeSpec).                      *)
(***************************************************************************)
Probed == Returned("can_spawn")
InsideWorld(e) == length_squared(e.position) <= WorldRadius * WorldRadius
KindOf(e) == edata(e).kind
FallThrough(e) == KindOf(e) \in {"Boat", "Obstacle", "Turret"}
\* The world es without the entities of the kinds K.
Without(es, K) == SelectSeq(es, LAMBDA o : edata(o).kind \notin K)
AllKinds == {data(t).kind : t \in EntityType}

\* C21: can_spawn is false for every entity whose squared distance from the
\* origin exceeds the squared world radius, whatever its kind and the
\* threshold; so every entity that try_spawn inserted lies within the world
\* radius.
C21_OutsideWorldRejected ==
  /\ (op \in {"can_spawn", "try_spawn"} /\ ~InsideWorld(entity)) =>
       /\ ~spawned
       /\ \A th \in ProbeThresholds : ~can_spawn(pre, entity, th)
       /\ entities = pre
  /\ \A i \in DOMAIN entities : InsideWorld(entities[i])

C21_Witness ==
  /\ Returned("try_spawn")
  /\ ~InsideWorld(entity)
  /\ KindOf(entity) = "Collectible"
  /\ ~collides_with_terrain(entity, terrain)
  /\ pre # <<>>

\* C22: for an entity of kind Decoy, Weapon, Collectible or Aircraft inside
\* the world, can_spawn depends neither on the threshold nor on any entity
\* that is not an Obstacle: for Collectible and Aircraft it is 'does not
\* collide with terrain', for Decoy and Weapon it is 'no Obstacle within
\* max_collision_radius collides with it, and it does not collide with
\* terrain'.
C22_EarlyKindsIgnoreThreshold ==
  (Probed /\ InsideWorld(entity)) =>
    /\ KindOf(entity) \in {"Collectible", "Aircraft"} =>
         spawned = ~collides_with_terrain(entity, terrain)
    /\ KindOf(entity) \in {"Decoy", "Weapon"} =>
         spawned =
           /\ ~ \E i \in DOMAIN pre :
                  /\ edata(pre[i]).kind = "Obstacle"
                  /\ WithinSq(distance_squared(pre[i].position, entity.position),
                              edata(entity).radius + MAX_RADIUS)
                  /\ collides_with(entity, pre[i])
           /\ ~collides_with_terrain(entity, terrain)
    /\ KindOf(entity) \in {"Decoy", "Weapon", "Collectible", "Aircraft"} =>
         /\ \A th \in ProbeThresholds : can_spawn(pre, entity, th) = spawned
         /\ can_spawn(Without(pre, AllKinds \ {"Obstacle"}), entity, threshold) = spawned

C22_Witness ==
  /\ Probed
  /\ InsideWorld(entity)
  /\ KindOf(entity) = "Weapon"
  /\ spawned
  /\ threshold = 6 * TScale
  /\ \E i \in DOMAIN pre : is_boat(pre[i]) /\ collides_with(entity, pre[i])

\* C23: for the kinds that fall through (Boat, Obstacle, Turret), can_spawn
\* accepts only if land_in_square(position, (radius + SCALE) * 2 *
\* threshold) equals is_land_based(): a water-based entity is never accepted
\* with land in that square, a land-based one never without.
C23_TerrainCategory ==
  (Probed /\ FallThrough(entity) /\ spawned) =>
    LET land == land_in_square(terrain, entity.position,
                               Times((edata(entity).radius + SCALE) * 2, threshold))
    IN  /\ land = is_land_based(edata(entity))
        /\ ~is_land_based(edata(entity)) => ~land
        /\ is_land_based(edata(entity)) => land

C23_Witness ==
  /\ Probed
  /\ spawned
  /\ KindOf(entity) = "Boat"
  /\ is_land_based(edata(entity))
  /\ threshold = TScale

\* C24: collectibles never block spawning: the result of can_spawn is the
\* same with any collectibles added to or removed from the world.
C24_CollectiblesNeverBlock ==
  Probed =>
    /\ can_spawn(Without(pre, {"Collectible"}), entity, threshold) = spawned
    /\ \A p \in ProbePositions :
         /\ can_spawn(add(pre, NewEntity("Crate", p)), entity, threshold) = spawned
         /\ can_spawn(add(add(pre, NewEntity("Crate", p)), NewEntity("Coin", entity.position)),
                      entity, threshold) = spawned

C24_Witness ==
  /\ Probed
  /\ spawned
  /\ FallThrough(entity)
  /\ \E i \in DOMAIN pre :
       /\ edata(pre[i]).kind = "Collectible"
       /\ pre[i].position = entity.position

\* C25: in the proximity check a fall-through entity is rejected iff some
\* entity that is not a Collectible lies at distance <= (radius +
\* other.radius) * m, with m = threshold when both are boats and the other
\* boat's level is above 2, and m = max(threshold * 0.5, 1.0) otherwise; at
\* threshold 1.0 that is a distance of at most the sum of the radii.
Multiplier(e, o, th) ==
  IF KindOf(e) = "Boat" /\ edata(o).kind = "Boat" /\ edata(o).level > 2
  THEN th
  ELSE Max(th \div 2, TScale)

ReachesProximityCheck ==
  /\ FallThrough(entity)
  /\ InsideWorld(entity)
  /\ land_in_square(terrain, entity.position,
                    Times((edata(entity).radius + SCALE) * 2, threshold))
       = is_land_based(edata(entity))

C25_ProximityRule ==
  (Probed /\ ReachesProximityCheck) =>
    /\ ~spawned <=>
         \E i \in DOMAIN pre :
           /\ edata(pre[i]).kind # "Collectible"
           /\ WithinSq(distance_squared(entity.position, pre[i].position),
                       ((edata(entity).radius + edata(pre[i]).radius)
                          * Multiplier(entity, pre[i], threshold)) \div TScale)
    /\ threshold = TScale =>
         (~spawned <=>
            \E i \in DOMAIN pre :
              /\ edata(pre[i]).kind # "Collectible"
              /\ WithinSq(distance_squared(entity.position, pre[i].position),
                          edata(entity).radius + edata(pre[i]).radius))

C25_Witness ==
  /\ Probed
  /\ ReachesProximityCheck
  /\ ~spawned
  /\ threshold = 2 * TScale
  /\ can_spawn(pre, entity, (3 * TScale) \div 2)
  /\ \E i \in DOMAIN pre : is_boat(pre[i]) /\ edata(pre[i]).level > 2

(***************************************************************************)
(* Properties of the tick (checked under TickSpec) and of the wire         *)
(* encoding (checked under SerdeSpec).                                     *)
(***************************************************************************)
UpdateCalls ==
  <<"count_tick", "clients.prune", "bots.update_count", "service.update(Ticks::ONE)",
    "players.update_is_alive_and_team_id", "clients.update", "bots.update",
    "leaderboard.process", "service.post_update">>
FlushCalls == <<"benchmark.borrow_all", "benchmark.reset_all">>

\* C28: every ContextService::update call makes, each exactly once and in
\* this order, the calls count_tick, clients.prune, bots.update_count,
\* service.update(Ticks::ONE), players.update_is_alive_and_team_id,
\* clients.update, bots.update, leaderboard.process, service.post_update; the
\* benchmark flush (report, then reset) comes only after post_update and only
\* when counter % Ticks::from_secs(5) = 0.
C28_UpdateOrder ==
  /\ Len(calls) <= Len(UpdateCalls) => calls = SubSeq(UpdateCalls, 1, Len(calls))
  /\ Len(calls) > Len(UpdateCalls) =>
       /\ calls = UpdateCalls \o FlushCalls
       /\ counter % from_secs(5) = 0
  /\ (tick_pc = "idle" /\ calls # <<>>) =>
       /\ Len(calls) >= Len(UpdateCalls)
       /\ Len(calls) > Len(UpdateCalls) <=> counter % from_secs(5) = 0

C28_Witness ==
  /\ tick_pc = "idle"
  /\ counter = from_secs(5)
  /\ calls = UpdateCalls \o FlushCalls

C30_UnknownIsDecodeError ==
  decoded # Undecoded =>
    /\ (~human_readable /\ \A t \in EntityType : as_u8(t) # wire.byte) =>
         decoded = Err("invalid entity type integer", wire.byte)
    /\ (human_readable /\ \A t \in EntityType : as_str(t) # wire.str) =>
         decoded = Err("invalid entity type", wire.str)

C30_Witness ==
  /\ ~human_readable
  /\ wire = U8(255)
  /\ decoded = Err("invalid entity type integer", 255)

(***************************************************************************)
(* Properties of EntityType::loot (checked under LootSpec).                *)
(***************************************************************************)
\* The loot table the specification gives a boat.
LootTableOf(t) ==
  IF data(t).sub_kind = "Pirate" THEN {"Crate", "Coin"}
  ELSE IF data(t).sub_kind = "Tanker" THEN {"Scrap", "Barrel"}
  ELSE IF t = "Olympias" THEN {"Crate"}
  ELSE {"Scrap"}

\* C31: for every boat type, loot(score, score_to_coins) emits exactly
\* piece_count + coin_count items: the first piece_count items are members
\* of the type's loot table (Pirate: {Crate, Coin}; Tanker: {Scrap, Barrel};
\* Olympias: {Crate}; any other: {Scrap}) and the coin_count items that
\* follow are all Coin, where coin_count = natural_death_coins(score) if
\* score_to_coins and 0 otherwise, and piece_count is
\* floor(length * 0.25 * u) for some u in [0.9, 1.0).
C31_LootShape ==
  loot_pc # "idle" =>
    /\ coin_amount = IF score_to_coins THEN natural_death_coins(score) ELSE 0
    /\ loot_amount >= (data(self_type).length * 9) \div 400
    /\ loot_amount <= data(self_type).length \div 40
    /\ emitted <= loot_amount + coin_amount
    /\ (1 <= emitted /\ emitted <= loot_amount) => item \in LootTableOf(self_type)
    /\ emitted > loot_amount => item = "Coin"
    /\ loot_pc = "exhausted" => emitted = loot_amount + coin_amount

C31_Witness ==
  /\ loot_pc = "exhausted"
  /\ self_type = "Indiaman"
  /\ score_to_coins
  /\ loot_amount = 13
  /\ coin_amount = 3
  /\ emitted = 16
  /\ item = "Coin"

(***************************************************************************)
(* Properties of the catalog-wide constants (C32 checked under PolicySpec, *)
(* C40 under ProbeSpec).                                                   *)
(***************************************************************************)
\* C32: for every catalog type t of kind Boat, 1 <= t.level <=
\* MAX_BOAT_LEVEL, and for every catalog type t, radius(t) <= MAX_RADIUS,
\* with MAX_RADIUS and MAX_BOAT_LEVEL as the catalog generator computes them.
C32_CatalogWithinConstants ==
  /\ data(self_type).kind = "Boat" =>
       /\ 1 <= data(self_type).level
       /\ data(self_type).level <= MAX_BOAT_LEVEL
  /\ data(self_type).radius <= MAX_RADIUS
  /\ \A t \in options :
       data(t).kind = "Boat" => 1 <= data(t).level /\ data(t).level <= MAX_BOAT_LEVEL

C32_Witness ==
  /\ query = "upgrade_options"
  /\ data(self_type).kind = "Boat"
  /\ data(self_type).level = 1
  /\ \E t \in options : data(t).kind = "Boat" /\ data(t).level = MAX_BOAT_LEVEL

\* C40: EntityData::MAX_RADIUS equals the maximum over all catalog types of
\* the derived radius hypot(length, width) / 2: it is the largest radius,
\* not merely an upper bound, so that the query radius of can_spawn,
\* data.radius + MAX_RADIUS, is the distance at which the entity touches
\* the largest entity there is.
C40_MaxRadiusIsLargestRadius ==
  Probed =>
    /\ MAX_RADIUS = MaxOf({data(t).radius : t \in EntityType})
    /\ \E t \in EntityType :
         edata(entity).radius + MAX_RADIUS = edata(entity).radius + data(t).radius

(***************************************************************************)
(* Properties of the retry loop of spawn_here_or_nearby (checked under     *)
(* Spec).                                                                  *)
(***************************************************************************)
\* The loop threshold after k updates: 6, then 0.05 + 0.95 * previous.
RECURSIVE LoopThreshold(_)
LoopThreshold(k) ==
  IF k = 0 THEN 6 * TScale
  ELSE TScale \div 20 + (LoopThreshold(k - 1) * 95) \div 100

\* A call of spawn_here_or_nearby with initial_radius > 0 stands at its loop
\* condition, about to test its latest candidate (the attempts-th).
AtLoopCondition == op = "spawn_here_or_nearby" /\ initial_radius > 0 /\ pc = "loop"

\* C33 as stated: in spawn_here_or_nearby with initial_radius > 0 the first
\* candidate is drawn within max(initial_radius, 1) and tested with threshold
\* 6; radius and threshold are advanced only after a candidate has failed its
\* test, so the k-th candidate is tested with the threshold obtained after
\* k - 1 updates.
C33_TestedAfterEarlierUpdates ==
  (AtLoopCondition /\ attempts >= 1) =>
    /\ WithinSq(distance_squared(entity.position, center),
                DrawRadius(initial_radius, attempts) \div LScale)
    /\ threshold = LoopThreshold(attempts - 1)

\* C33, amended: the k-th candidate is drawn within the radius obtained after
\* k - 1 updates (max(initial_radius, 1) for the first), and radius and
\* threshold are advanced right after the draw, before the candidate is
\* tested: the k-th candidate is tested with the threshold obtained after k
\* updates (5.75 for the first), and the next draw uses the radius after k
\* updates.
C33_TestedAfterOwnUpdate ==
  AtLoopCondition =>
    /\ attempts >= 1 =>
         WithinSq(distance_squared(entity.position, center),
                  DrawRadius(initial_radius, attempts) \div LScale)
    /\ threshold = LoopThreshold(attempts)
    /\ radius = DrawRadius(initial_radius, attempts + 1)

C33_Witness ==
  /\ AtLoopCondition
  /\ attempts = 2
  /\ entity.position # center
  /\ ~can_spawn(entities, entity, threshold)
  /\ can_spawn(entities, entity, TScale)

\* The placement handed to the call is the one the entity has now.
AsPassed ==
  /\ entity.position = argument.position
  /\ entity.direction = argument.direction

\* C34 as stated: in spawn_here_or_nearby with initial_radius > 0 at least one
\* random re-placement (new position and new direction) is performed before
\* any insertion, even when the original position and direction would pass
\* can_spawn; the originally supplied placement is never tested or inserted
\* as-is.
C34_OriginalNeverInserted ==
  (op = "spawn_here_or_nearby" /\ initial_radius > 0 /\ pc \in {"placed", "returned"}) =>
    /\ attempts >= 1
    /\ ~AsPassed

\* C34, amended: at least one random re-placement is performed before any
\* insertion, even when the original placement would pass can_spawn; the
\* loop never accepts a candidate at the original position, and the
\* placement handed to try_spawn is the original one only when the governor
\* ran out on a draw that gave the original position and direction back.
C34_RandomizedBeforeInsertion ==
  (op = "spawn_here_or_nearby" /\ initial_radius > 0 /\ pc \in {"placed", "returned"}) =>
    /\ attempts >= 1
    /\ AsPassed => governor = 0
    /\ entity.position = center => governor = 0
    /\ entities # pre => entities = Append(pre, entity)

C34_Witness ==
  /\ NearbyReturned
  /\ spawned
  /\ attempts = 1
  /\ can_spawn(pre, argument, 6 * TScale)
  /\ ~AsPassed

\* C36: if the retry loop of spawn_here_or_nearby (initial_radius > 0) ends
\* because a candidate passed can_spawn at the loop threshold, not because
\* the governor reached zero, then the final try_spawn succeeds and the call
\* returns true, for every entity type including the land-based ones.
C36_AcceptedCandidateSpawns ==
  (NearbyReturned /\ governor # 0) => spawned

\* Entities of the kinds that keep their distance from one another.
Solid(e) == edata(e).kind \in {"Boat", "Obstacle"}

\* Any two distinct Boat or Obstacle entities of es have their centres
\* farther apart than the sum of their radii.
Separated(es) ==
  \A i \in DOMAIN es, j \in DOMAIN es :
    (i < j /\ Solid(es[i]) /\ Solid(es[j])) =>
      ~WithinSq(distance_squared(es[i].position, es[j].position),
                edata(es[i]).radius + edata(es[j]).radius)

\* C37: in a world whose entities are only ever added through try_spawn,
\* spawn_here_or_nearby, spawn_static and spawn_statics (one call at a time,
\* no movement), in every reachable state any two distinct entities whose
\* kinds are both in {Boat, Obstacle} have centres farther apart than the sum
\* of their radii; and every insertion adds one entity that passes can_spawn
\* at threshold 1.0 in the very world it is added to (the check and the
\* insertion are one step).
C37_PairwiseSeparation ==
  /\ [](Separated(entities))
  /\ [][entities' # entities =>
          /\ Len(entities') = Len(entities) + 1
          /\ entities' = Append(entities, entities'[Len(entities')])
          /\ can_spawn(entities, entities'[Len(entities')], TScale)]_vars

C37_Witness ==
  /\ NearbyReturned
  /\ spawned
  /\ Len(entities) = 2
  /\ Solid(entities[1])
  /\ is_boat(entities[2])
  /\ attempts >= 2
  /\ ~can_spawn(pre, [entity EXCEPT !.position = center], TScale)

(***************************************************************************)
(* Properties of the inserted entities (checked under InsertSpec).         *)
(***************************************************************************)
\* The entities the current call has inserted.
Inserted == {entities[i] : i \in (Len(pre) + 1)..Len(entities)}

\* Default guidance and no owner.
StaticGuidance(e) ==
  /\ e.player = "None"
  /\ e.velocity_target = 0
  /\ e.direction_target = e.direction

\* An age of 0 for an unlimited lifespan, within [0, 0.25 * lifespan)
\* otherwise.
FreshAge(e) ==
  IF edata(e).lifespan = 0 THEN e.ticks = 0
  ELSE 0 <= e.ticks /\ 4 * e.ticks < edata(e).lifespan

\* C35 as stated: every entity inserted by spawn_here_or_nearby with
\* initial_radius > 0 has guidance.direction_target equal to its direction at
\* insertion, and every entity inserted by spawn_static or spawn_statics has
\* no owner, guidance.velocity_target = 0, guidance.direction_target = its
\* direction, and an age of 0 when the type's lifespan is unlimited and
\* within [0, 0.25 * lifespan) otherwise.
C35_InsertedFieldsWithFreshAge ==
  /\ (NearbyReturned /\ spawned) =>
       \A e \in Inserted : e.direction_target = e.direction
  /\ op \in {"spawn_static", "spawn_statics"} =>
       \A e \in Inserted : StaticGuidance(e) /\ FreshAge(e)

\* C35, amended: as stated, except that the age is 0 or within
\* [0, 0.25 * lifespan) only for the entities spawn_statics inserts; an
\* entity inserted by a direct spawn_static call has the age the call was
\* given.
C35_InsertedFields ==
  /\ (NearbyReturned /\ spawned) =>
       \A e \in Inserted : e.direction_target = e.direction
  /\ op \in {"spawn_static", "spawn_statics"} =>
       \A e \in Inserted : StaticGuidance(e)
  /\ op = "spawn_statics" => \A e \in Inserted : FreshAge(e)

C35_Witness ==
  /\ op = "spawn_statics"
  /\ pc = "idle"
  /\ \E e \in Inserted : edata(e).lifespan # 0 /\ e.ticks > 0 /\ e.direction # 0
  /\ \E e \in Inserted : edata(e).lifespan = 0

C39_TransitioningEventuallyCleared ==
  (splash_pc = "mounted" /\ transitioning) ~> (~transitioning \/ splash_pc # "mounted")

====
